---- MODULE Spec2Model ----
(***************************************************************************)
(* Model of the schedule generation engine: the session-atom builder, the  *)
(* constraint manager with its state index, and the scheduling engine      *)
(* (multi-restart greedy construction followed by pairwise local search).  *)
(* Scores are doubles and are kept exactly, rounding included.             *)
(***************************************************************************)
EXTENDS Integers, Sequences, FiniteSets, TLC

\* ---------------------------------------------------------------- bounds
\* the largest max_attempts a caller passes
MaxAttempts == 2

\* ------------------------------------------------------------ sequences
Range(s) == {s[i] : i \in 1..Len(s)}

RECURSIVE SumSeq(_)
SumSeq(s) == IF s = <<>> THEN 0 ELSE Head(s) + SumSeq(Tail(s))

Max2(a, b) == IF a >= b THEN a ELSE b

Abs(x) == IF x < 0 THEN -x ELSE x

None == [none |-> TRUE]

\* --------------------------------------------------------------- state
VARIABLES
    halls, labs,            \* the resource manager's pools
    course_assignments,     \* the study plan's course assignments
    expected_students,      \* the study plan's expected_students
    max_attempts,           \* the argument of schedule_blocks
    pc,                     \* where the engine is in schedule_blocks
    run,                    \* 1 for the first call, 2 for the second
    blocks,                 \* the built blocks
    attempt,                \* attempts started so far
    sorted_blocks, next_block,
    current_assignments, unassigned,
    best_attempt,
    state,                  \* the constraint manager's index
    ls,                     \* the local variables of _local_search
    best_origin,            \* whether best came from "greedy" or "local_search"
    placed,                 \* whether an attempt of this call placed a block
    result, first_result,   \* what the call returned
    cancel,                 \* the caller's cancel flag
    evaluated,              \* the attempts this call has scored, in order
    call, answer            \* a direct call of one operation, and its result

vars == <<halls, labs, course_assignments, expected_students, max_attempts, pc, run,
          blocks, attempt, sorted_blocks, next_block, current_assignments, unassigned,
          best_attempt, state, ls, best_origin, placed, result, first_result, cancel,
          evaluated, call, answer>>

inputs == <<halls, labs, course_assignments, expected_students, max_attempts>>

direct == <<call, answer>>

\* ------------------------------------------------------------ time model
\* A TimePreference is (day, start_time, end_time); times are whole hours.
TimePreference(d, s, e) == [day |-> d, start_time |-> s, end_time |-> e]

\* A session slot: two hours, starting on the hour.
Slot(d, h) == TimePreference(d, h, h + 2)

SlotKey(slot) == <<slot.day, slot.start_time>>

\* ------------------------------------------------------------ entities
Hall(id, capacity, availability) ==
    [id |-> id, kind |-> "hall", capacity |-> capacity,
     availability |-> availability, used_in_non_specialist_courses |-> FALSE]

Lab(id, capacity, availability, used) ==
    [id |-> id, kind |-> "lab", capacity |-> capacity,
     availability |-> availability, used_in_non_specialist_courses |-> used]

StaffMember(id, kind, prefs) ==
    [id |-> id, kind |-> kind, timing_preferences |-> prefs]

CourseAssignment(code, lg, lecturers, labg, tas, inlab, preferred) ==
    [course_code |-> code, lecture_groups |-> lg, lecturers |-> lecturers,
     lab_groups |-> labg, teaching_assistants |-> tas,
     practical_in_lab |-> inlab, preferred_labs |-> preferred]

\* Block ids are the strings L_<course>_<staff>_<n> and P_<course>_<staff>_<n>;
\* course codes are the numbers 1..9 of the codes "C1".."C9", staff ids and
\* group numbers are single digits, so the string order of two ids is the
\* lexicographic order of their four fields.
BlockId(t, course, staff, n) == <<t, course, staff, n>>

TypeOrd(t) == IF t = "L" THEN 0 ELSE 1

IdLess(a, b) ==
    \/ TypeOrd(a[1]) < TypeOrd(b[1])
    \/ a[1] = b[1] /\ a[2] < b[2]
    \/ a[1] = b[1] /\ a[2] = b[2] /\ a[3] < b[3]
    \/ a[1] = b[1] /\ a[2] = b[2] /\ a[3] = b[3] /\ a[4] < b[4]

Assignment(block, slot, room) == [block |-> block, time_slot |-> slot, room |-> room]

\* ------------------------------------------------------ session builder
AcademicListName == "AI"
AcademicLevel == 1

\* a counter that starts again at 1 after every (staff, k) pair
GroupCountRestart(counter, k) == 1

\* lecture_group_count / lab_group_count after the k blocks of one pair
GroupCount(counter, k) == counter + k

\* a share of the students that is rounded up
StudentCountRoundedUp(students, total) == (students + total - 1) \div total

\* expected_students // lecture_groups, expected_students // lab_groups
StudentCount(students, total) == students \div total

RECURSIVE GroupBlocks(_, _, _, _, _)
\* the blocks of one staff list: k consecutive blocks per (staff, k) pair
GroupBlocks(course, pairs, counter, isLab, students) ==
    IF pairs = <<>> THEN <<>>
    ELSE LET p == Head(pairs)
             total == IF isLab THEN course.lab_groups ELSE course.lecture_groups
             mk(n) == [id |-> BlockId(IF isLab THEN "P" ELSE "L",
                                      course.course_code, p.staff.id, n),
                       course_code |-> course.course_code,
                       block_type |-> IF isLab THEN "lab" ELSE "lecture",
                       staff_member |-> p.staff,
                       student_count |-> StudentCount(students, total),
                       required_room_type |->
                           IF isLab /\ course.practical_in_lab THEN "lab" ELSE "hall",
                       group_number |-> n,
                       total_groups |-> total,
                       is_single_group_course |-> (total = 1),
                       academic_list |-> AcademicListName,
                       academic_level |-> AcademicLevel,
                       practical_in_lab |-> IF isLab THEN course.practical_in_lab ELSE TRUE,
                       preferred_rooms |-> IF isLab THEN course.preferred_labs ELSE <<>>]
         IN [i \in 1..p.num_of_groups |-> mk(counter + i - 1)]
            \o GroupBlocks(course, Tail(pairs), GroupCount(counter, p.num_of_groups),
                           isLab, students)

RECURSIVE ConvertCourseAssignmentsToBlocks(_, _)
ConvertCourseAssignmentsToBlocks(cas, students) ==
    IF cas = <<>> THEN <<>>
    ELSE LET c == Head(cas)
         IN GroupBlocks(c, c.lecturers, 1, FALSE, students)
            \o (IF c.lab_groups # 0
                THEN GroupBlocks(c, c.teaching_assistants, 1, TRUE, students)
                ELSE <<>>)
            \o ConvertCourseAssignmentsToBlocks(Tail(cas), students)

\* ------------------------------------------------------ resource manager
\* a floor that asks for a seat for every student
CapacityFloorFull(room, block) == room.capacity >= block.student_count

\* capacity >= 0.8 * student_count
CapacityFloor(room, block) == 10 * room.capacity >= 8 * block.student_count

GetSuitableRooms(block, hallPool, labPool) ==
    LET pool == IF block.required_room_type = "lab"
                THEN IF block.preferred_rooms # <<>>
                     THEN SelectSeq(labPool, LAMBDA r : r \in Range(block.preferred_rooms))
                     ELSE SelectSeq(labPool, LAMBDA r : r.used_in_non_specialist_courses)
                ELSE hallPool
    IN SelectSeq(pool, LAMBDA r : CapacityFloor(r, block))

Contains(window, slot) ==
    /\ window.day = slot.day
    /\ window.start_time <= slot.start_time
    /\ window.end_time >= slot.end_time

Taken(block, room, assignments) ==
    {SlotKey(assignments[i].time_slot) : i \in
        {j \in 1..Len(assignments) :
            \/ assignments[j].room.id = room.id
            \/ assignments[j].block.staff_member.id = block.staff_member.id}}

GetAvailableSlots(block, room, assignments) ==
    SelectSeq(room.availability,
        LAMBDA s : /\ SlotKey(s) \notin Taken(block, room, assignments)
                   /\ \E i \in 1..Len(block.staff_member.timing_preferences) :
                         Contains(block.staff_member.timing_preferences[i], s))

\* ---------------------------------------------------- assignment maps
\* An assignment map (a dict keyed by block id, in insertion order) is the
\* sequence of its Assignments; the key of an entry is its block's id.
Keys(assignments) == {assignments[i].block.id : i \in 1..Len(assignments)}

IndexOf(assignments, id) ==
    CHOOSE i \in 1..Len(assignments) : assignments[i].block.id = id

\* assignments[a.block.id] = a
DictPut(assignments, a) ==
    IF a.block.id \in Keys(assignments)
    THEN [assignments EXCEPT ![IndexOf(assignments, a.block.id)] = a]
    ELSE Append(assignments, a)

\* ---------------------------------------------------------- state index
EmptyState ==
    [room_bookings |-> <<>>, staff_bookings |-> <<>>, course_slots |-> <<>>,
     level_slots |-> <<>>, study_plan_slots |-> <<>>, current_assignments |-> <<>>]

\* the indices of the assignments selected by P, in map order
Sel(assignments, P(_)) == {i \in 1..Len(assignments) : P(assignments[i])}

Last(S) == CHOOSE i \in S : \A j \in S : j <= i

RECURSIVE SeqOfSet(_)
\* the members of a set of indices in increasing order
SeqOfSet(S) ==
    IF S = {} THEN <<>>
    ELSE LET m == CHOOSE i \in S : \A j \in S : i <= j
         IN <<m>> \o SeqOfSet(S \ {m})

\* every one of the five maps, repopulated from the assignments in map order
RebuildIndex(assignments) ==
    LET n == Len(assignments)
        A == assignments
        key(i) == SlotKey(A[i].time_slot)
        levelKey(i) == <<A[i].block.academic_list, A[i].block.academic_level>>
        planKey(i) == <<A[i].block.academic_list, A[i].time_slot.day,
                        A[i].time_slot.start_time>>
    IN [room_bookings |->
            [r \in {A[i].room.id : i \in 1..n} |->
                [k \in {key(i) : i \in {j \in 1..n : A[j].room.id = r}} |->
                    A[Last({j \in 1..n : A[j].room.id = r /\ key(j) = k})].block.id]],
        staff_bookings |->
            [s \in {A[i].block.staff_member.id : i \in 1..n} |->
                [k \in {key(i) : i \in {j \in 1..n : A[j].block.staff_member.id = s}} |->
                    A[Last({j \in 1..n : A[j].block.staff_member.id = s
                                          /\ key(j) = k})].block.id]],
        course_slots |->
            [c \in {A[i].block.course_code : i \in 1..n} |->
                [k \in {key(i) : i \in {j \in 1..n : A[j].block.course_code = c}} |->
                    Cardinality({j \in 1..n : A[j].block.course_code = c /\ key(j) = k})]],
        level_slots |->
            [l \in {levelKey(i) : i \in 1..n} |->
                [d \in {A[i].time_slot.day : i \in {j \in 1..n : levelKey(j) = l}} |->
                    LET idx == SeqOfSet({j \in 1..n : levelKey(j) = l
                                                    /\ A[j].time_slot.day = d})
                    IN [x \in 1..Len(idx) |-> A[idx[x]].time_slot.start_time]]],
        study_plan_slots |->
            [p \in {planKey(i) : i \in 1..n} |->
                LET idx == SeqOfSet({j \in 1..n : planKey(j) = p})
                IN [x \in 1..Len(idx) |-> A[idx[x]].block.id]],
        current_assignments |-> assignments]

\* a constraint manager that does not wipe its index before repopulating it
UpdateStateKept(assignments) == RebuildIndex(state.current_assignments \o assignments)

\* update_state: the index is emptied, then rebuilt from the map given
UpdateState(assignments) == RebuildIndex(assignments)

\* ------------------------------------------------------ hard constraints
check_room_booking(st, block, slot, room) ==
    ~ (room.id \in DOMAIN st.room_bookings
       /\ SlotKey(slot) \in DOMAIN st.room_bookings[room.id])

\* a staff check that overlooks a booking held by the candidate block itself
check_staff_booking_but_own(st, block, slot, room) ==
    ~ (block.staff_member.id \in DOMAIN st.staff_bookings
       /\ SlotKey(slot) \in DOMAIN st.staff_bookings[block.staff_member.id]
       /\ st.staff_bookings[block.staff_member.id][SlotKey(slot)] # block.id)

check_staff_booking(st, block, slot, room) ==
    ~ (block.staff_member.id \in DOMAIN st.staff_bookings
       /\ SlotKey(slot) \in DOMAIN st.staff_bookings[block.staff_member.id])

check_room_availability(st, block, slot, room) ==
    \E i \in 1..Len(room.availability) :
        /\ room.availability[i].day = slot.day
        /\ room.availability[i].start_time <= slot.start_time
        /\ room.availability[i].end_time >= slot.end_time

check_single_group_conflict(st, block, slot, room) ==
    LET slot_key == <<block.academic_list, slot.day, slot.start_time>>
    IN IF slot_key \in DOMAIN st.study_plan_slots
       THEN LET ids == st.study_plan_slots[slot_key]
                cur == st.current_assignments
                \* the blocks of the ids found in the stored assignment map
                existing == {cur[i].block : i \in
                               {j \in 1..Len(cur) : cur[j].block.id \in Range(ids)}}
            IN /\ ~ block.is_single_group_course
               /\ \A e \in existing :
                    /\ ~ e.is_single_group_course
                    /\ (e.course_code = block.course_code
                          => ~ (block.total_groups = 1 \/ e.total_groups = 1))
       ELSE TRUE

\* a lab check that lets any general lab stand in for a preferred one
check_lab_requirements_or_general(st, block, slot, room) ==
    IF block.required_room_type = "lab"
    THEN /\ room.kind = "lab"
         /\ \/ room \in Range(block.preferred_rooms)
            \/ room.used_in_non_specialist_courses
    ELSE room.kind = "hall"

check_lab_requirements(st, block, slot, room) ==
    IF block.required_room_type = "lab"
    THEN IF room.kind # "lab" THEN FALSE
         ELSE IF block.preferred_rooms # <<>>
              THEN room \in Range(block.preferred_rooms)
              ELSE room.used_in_non_specialist_courses
    ELSE IF block.required_room_type = "hall" /\ room.kind # "hall" THEN FALSE
         ELSE TRUE

\* a constraint list in which the staff check was registered first
HardVerdictStaffFirst(st, block, slot, room) ==
    IF ~ check_staff_booking(st, block, slot, room)
        THEN [valid |-> FALSE, reason |-> "No double staff booking"]
    ELSE IF ~ check_room_booking(st, block, slot, room)
        THEN [valid |-> FALSE, reason |-> "No double room booking"]
    ELSE IF ~ check_room_availability(st, block, slot, room)
        THEN [valid |-> FALSE, reason |-> "Room must be available in the given time slot"]
    ELSE IF ~ check_single_group_conflict(st, block, slot, room)
        THEN [valid |-> FALSE, reason |-> "Single group courses cannot have parallel sessions"]
    ELSE IF ~ check_lab_requirements(st, block, slot, room)
        THEN [valid |-> FALSE, reason |-> "Lab specialization and preferences must be met"]
    ELSE [valid |-> TRUE, reason |-> "None"]

\* the verdict and the description of the first failing constraint,
\* evaluated on the freshly rebuilt index
HardVerdict(st, block, slot, room) ==
    IF ~ check_room_booking(st, block, slot, room)
        THEN [valid |-> FALSE, reason |-> "No double room booking"]
    ELSE IF ~ check_staff_booking(st, block, slot, room)
        THEN [valid |-> FALSE, reason |-> "No double staff booking"]
    ELSE IF ~ check_room_availability(st, block, slot, room)
        THEN [valid |-> FALSE, reason |-> "Room must be available in the given time slot"]
    ELSE IF ~ check_single_group_conflict(st, block, slot, room)
        THEN [valid |-> FALSE, reason |-> "Single group courses cannot have parallel sessions"]
    ELSE IF ~ check_lab_requirements(st, block, slot, room)
        THEN [valid |-> FALSE, reason |-> "Lab specialization and preferences must be met"]
    ELSE [valid |-> TRUE, reason |-> "None"]

\* a check that reads the index as the last call left it, without a rebuild
check_all_constraints_on_held_index(block, slot, room, assignments) ==
    HardVerdict(state, block, slot, room)

\* a check that never indexes the map it is given
check_all_constraints_unindexed(block, slot, room, assignments) ==
    HardVerdict(EmptyState, block, slot, room)

\* check_all_constraints rebuilds the index from the map it is given; the
\* index it leaves behind is UpdateState(assignments)
check_all_constraints(block, slot, room, assignments) ==
    HardVerdict(UpdateState(assignments), block, slot, room)

\* ------------------------------------------------------------- doubles
\* Scores are IEEE doubles.  Every score the program computes lies within a
\* few units in the last place of a multiple of 1/q, q = 20 for a sum of
\* weighted scores and q = 20 * n for an average over n assignments, so a
\* double is kept exactly as [k, d, q]: the number k/q + d/(q * 2^58).
Double(k, d, q) == [k |-> k, d |-> d, q |-> q]

Zero == Double(0, 0, 20)

Pow2(n) == <<1, 2, 4, 8, 16, 32, 64, 128, 256, 512, 1024, 2048, 4096, 8192, 16384>>[n + 1]

RECURSIVE MulPow2Mod(_, _, _)
\* (x * 2^n) mod m
MulPow2Mod(x, n, m) ==
    IF n = 0 THEN x % m
    ELSE IF n >= 10 THEN MulPow2Mod((x * 1024) % m, n - 10, m)
    ELSE (x * Pow2(n)) % m

\* x >= 2^e, for x > 0
AtLeastPow2(x, e) ==
    IF e >= 0
    THEN x.k > x.q * Pow2(e) \/ (x.k = x.q * Pow2(e) /\ x.d >= 0)
    ELSE x.k * Pow2(0 - e) > x.q \/ (x.k * Pow2(0 - e) = x.q /\ x.d >= 0)

RECURSIVE BinadeFrom(_, _)
BinadeFrom(x, e) == IF AtLeastPow2(x, e + 1) THEN BinadeFrom(x, e + 1) ELSE e

\* the e with 2^e <= x < 2^(e + 1), for 2^-6 <= x
Binade(x) == BinadeFrom(x, 0 - 6)

\* the double nearest to the number x (ties to even): in the binade e the
\* doubles are the multiples of 2^(e - 52)
RoundToDouble(x) ==
    IF x.k = 0 THEN x
    ELSE LET m == x.q * Pow2(6 + Binade(x))
             rem(mm) == (MulPow2Mod(x.k % mm, 58, mm) + (x.d % mm)) % mm
             r == rem(m)
             odd == rem(2 * m) >= m
             down == [x EXCEPT !.d = x.d - r]
             up == [x EXCEPT !.d = x.d - r + m]
         IN IF 2 * r < m THEN down
            ELSE IF 2 * r > m THEN up
            ELSE IF odd THEN up ELSE down

\* x + y of two sums
FAdd(x, y) == RoundToDouble(Double(x.k + y.k, x.d + y.d, x.q))

\* x / n for the integer n
FDiv(x, n) == RoundToDouble(Double(x.k, x.d, x.q * n))

FLess(x, y) ==
    \/ x.k * y.q < y.k * x.q
    \/ x.k * y.q = y.k * x.q /\ x.d * y.q < y.d * x.q

\* score * weight; a raw score is given in tenths and a weight in halves.
\* Only 0.7 and 0.3 are not doubles, and only the capacity constraint
\* (weight 1.5) yields them: 0.7 * 1.5 = 1.0499999999999998 and
\* 0.3 * 1.5 = 0.44999999999999996.
FMul(tenths, halves) ==
    Double(tenths * halves,
           IF tenths = 7 THEN 0 - 1024 ELSE IF tenths = 3 THEN 0 - 256 ELSE 0,
           20)

\* the literals 0.95 and 0.7
Perfect == Double(19, 0 - 256, 20)
Decent == Double(14, 0 - 256, 20)

\* ------------------------------------------------------ soft constraints
\* The evaluators return raw scores in tenths.
RECURSIVE SortAsc(_)
\* sorted(list) of whole hours
SortAsc(s) ==
    IF s = <<>> THEN <<>>
    ELSE LET m == CHOOSE i \in 1..Len(s) : \A j \in 1..Len(s) : s[i] <= s[j]
         IN <<s[m]>> \o SortAsc([k \in 1..(Len(s) - 1) |-> IF k < m THEN s[k] ELSE s[k + 1]])

MaxOf(S) == CHOOSE x \in S : \A y \in S : y <= x
MinOf(S) == CHOOSE x \in S : \A y \in S : x <= y

PrefMatch(block, slot) ==
    \E i \in 1..Len(block.staff_member.timing_preferences) :
        /\ block.staff_member.timing_preferences[i].day = slot.day
        /\ block.staff_member.timing_preferences[i].start_time = slot.start_time

evaluate_lecturer_preferences(st, block, slot, room) ==
    IF block.staff_member.kind # "lecturer" THEN 0
    ELSE IF PrefMatch(block, slot) THEN 10 ELSE 0

evaluate_ta_preferences(st, block, slot, room) ==
    IF block.staff_member.kind # "ta" THEN 0
    ELSE IF PrefMatch(block, slot) THEN 10 ELSE 0

\* a gap score that leaves the candidate slot out
evaluate_gaps_between_held(st, block, slot, room) ==
    LET level_key == <<block.academic_list, block.academic_level>>
    IN IF level_key \notin DOMAIN st.level_slots THEN 10
       ELSE IF slot.day \notin DOMAIN st.level_slots[level_key] THEN 10
       ELSE LET day_slots == SortAsc(st.level_slots[level_key][slot.day])
                max_gap == MaxOf({0} \cup {day_slots[i + 1] - day_slots[i] :
                                              i \in 1..(Len(day_slots) - 1)})
            IN IF max_gap <= 2 THEN 10
               ELSE IF max_gap <= 4 THEN 5
               ELSE 0

evaluate_gaps(st, block, slot, room) ==
    LET level_key == <<block.academic_list, block.academic_level>>
    IN IF level_key \notin DOMAIN st.level_slots THEN 10
       ELSE IF slot.day \notin DOMAIN st.level_slots[level_key] THEN 10
       ELSE LET day_slots == SortAsc(st.level_slots[level_key][slot.day])
                n == Len(day_slots)
                gaps == {day_slots[i + 1] - day_slots[i] : i \in 1..(n - 1)}
                before_gap == Abs(slot.start_time - MinOf(Range(day_slots)))
                after_gap == Abs(slot.start_time - MaxOf(Range(day_slots)))
                max_gap == IF n = 0 THEN 0
                           ELSE MaxOf(gaps \cup {0, before_gap, after_gap})
            IN IF max_gap <= 2 THEN 10
               ELSE IF max_gap <= 4 THEN 5
               ELSE 0

\* capacity bands in which a utilization of 0.2 still counts as slightly
\* under-utilized
evaluate_room_capacity_from_fifth(st, block, slot, room) ==
    LET c == block.student_count
        cap == room.capacity
    IN IF 10 * c >= 5 * cap /\ 10 * c <= 9 * cap THEN 10
       ELSE IF 10 * c >= 2 * cap /\ 10 * c < 5 * cap THEN 7
       ELSE IF 10 * c > 9 * cap /\ c <= cap THEN 7
       ELSE IF 10 * c < 2 * cap THEN 3
       ELSE 0

\* capacity bands in which a full room still counts as ideally used
evaluate_room_capacity_full_is_ideal(st, block, slot, room) ==
    LET c == block.student_count
        cap == room.capacity
    IN IF 10 * c >= 5 * cap /\ c <= cap THEN 10
       ELSE IF 10 * c >= 3 * cap /\ 10 * c < 5 * cap THEN 7
       ELSE IF 10 * c < 3 * cap THEN 3
       ELSE 0

\* utilization = student_count / capacity
evaluate_room_capacity(st, block, slot, room) ==
    LET c == block.student_count
        cap == room.capacity
    IN IF 10 * c >= 5 * cap /\ 10 * c <= 9 * cap THEN 10
       ELSE IF 10 * c >= 3 * cap /\ 10 * c < 5 * cap THEN 7
       ELSE IF 10 * c > 9 * cap /\ c <= cap THEN 7
       ELSE IF 10 * c < 3 * cap THEN 3
       ELSE 0

\* the weights 5.0, 3.0, 2.0 and 1.5, in halves
LecturerWeight == 10
AssistantWeight == 6
GapWeight == 4
CapacityWeight == 3

\* reads the index as it stands: no rebuild
evaluate_soft_constraints(st, block, slot, room) ==
    FAdd(FAdd(FAdd(FAdd(Zero,
        FMul(evaluate_lecturer_preferences(st, block, slot, room), LecturerWeight)),
        FMul(evaluate_ta_preferences(st, block, slot, room), AssistantWeight)),
        FMul(evaluate_gaps(st, block, slot, room), GapWeight)),
        FMul(evaluate_room_capacity(st, block, slot, room), CapacityWeight))

\* ------------------------------------------------------ scheduling engine
RECURSIVE SoftSum(_, _, _)
\* total_score after the remaining assignments have been added to it
SoftSum(st, assignments, total) ==
    IF assignments = <<>> THEN total
    ELSE SoftSum(st, Tail(assignments),
                 FAdd(total, evaluate_soft_constraints(st, Head(assignments).block,
                          Head(assignments).time_slot, Head(assignments).room)))

_evaluate_schedule(st, assignments) ==
    IF assignments = <<>> THEN Zero
    ELSE FDiv(SoftSum(st, assignments, Zero), Len(assignments))

SchedulingAttempt(assignments, score, unassigned_blocks) ==
    [assignments |-> assignments, score |-> score, unassigned_blocks |-> unassigned_blocks]

\* a comparison in which an equal score is enough to replace best
_is_better_attempt_or_equal(best, new) ==
    IF best = None THEN TRUE
    ELSE IF Cardinality(new.unassigned_blocks) < Cardinality(best.unassigned_blocks)
         THEN TRUE
    ELSE IF Cardinality(new.unassigned_blocks) = Cardinality(best.unassigned_blocks)
         THEN ~ FLess(new.score, best.score)
    ELSE FALSE

_is_better_attempt(best, new) ==
    IF best = None THEN TRUE
    ELSE IF Cardinality(new.unassigned_blocks) < Cardinality(best.unassigned_blocks)
         THEN TRUE
    ELSE IF Cardinality(new.unassigned_blocks) = Cardinality(best.unassigned_blocks)
         THEN FLess(best.score, new.score)
    ELSE FALSE

\* an engine that keeps whatever attempt it scored last
RetainLatest(best, new) == new

\* if self._is_better_attempt(new): self.best_attempt = new
Retain(best, new) == IF _is_better_attempt(best, new) THEN new ELSE best

\* priority score * 100
_calculate_block_priority(block) ==
    (IF block.preferred_rooms # <<>> THEN 1000 ELSE 0)
    + (IF block.is_single_group_course THEN 2000 ELSE 0)
    + (IF block.staff_member.kind = "lecturer" THEN 1500 ELSE 0)
    + (IF block.required_room_type = "lab" THEN 800 ELSE 0)
    + block.student_count

\* the engine's current_attempt field is never assigned: the slots are
\* enumerated against an empty map
_get_possible_slots(block, room) == GetAvailableSlots(block, room, <<>>)

get_block_score(block, hallPool, labPool) ==
    LET possible_rooms == GetSuitableRooms(block, hallPool, labPool)
    IN << IF block.is_single_group_course THEN 1 ELSE 0,
          0 - Len(possible_rooms),
          0 - SumSeq([i \in 1..Len(possible_rooms) |->
                        Len(_get_possible_slots(block, possible_rooms[i]))]),
          _calculate_block_priority(block) >>

TupleLess(a, b) ==
    \/ a[1] < b[1]
    \/ a[1] = b[1] /\ a[2] < b[2]
    \/ a[1] = b[1] /\ a[2] = b[2] /\ a[3] < b[3]
    \/ a[1] = b[1] /\ a[2] = b[2] /\ a[3] = b[3] /\ a[4] < b[4]

RECURSIVE InsertDescBeforeEqual(_, _)
\* a descending sort that puts a block in front of the blocks of equal key
InsertDescBeforeEqual(sorted, e) ==
    IF sorted = <<>> THEN <<e>>
    ELSE IF ~ TupleLess(e.key, Head(sorted).key)
         THEN <<e>> \o sorted
         ELSE <<Head(sorted)>> \o InsertDescBeforeEqual(Tail(sorted), e)

RECURSIVE InsertDesc(_, _)
\* insert the keyed block e after every element whose key is not smaller
\* (stable, descending)
InsertDesc(sorted, e) ==
    IF sorted = <<>> THEN <<e>>
    ELSE IF TupleLess(Head(sorted).key, e.key)
         THEN <<e>> \o sorted
         ELSE <<Head(sorted)>> \o InsertDesc(Tail(sorted), e)

RECURSIVE SortFrom(_, _)
SortFrom(sorted, rest) ==
    IF rest = <<>> THEN sorted
    ELSE SortFrom(InsertDesc(sorted, Head(rest)), Tail(rest))

\* sorted(blocks, key = get_block_score, reverse = True)
_sort_blocks_by_priority(bs, hallPool, labPool) ==
    LET keyed == [i \in 1..Len(bs) |->
                    [block |-> bs[i], key |-> get_block_score(bs[i], hallPool, labPool)]]
        sorted == SortFrom(<<>>, keyed)
    IN [i \in 1..Len(sorted) |-> sorted[i].block]

RECURSIVE Concat(_)
Concat(ss) == IF ss = <<>> THEN <<>> ELSE Head(ss) \o Concat(Tail(ss))

\* the (room, slot) pairs in enumeration order, room-major
Candidates(block, hallPool, labPool) ==
    LET rooms == GetSuitableRooms(block, hallPool, labPool)
    IN Concat([i \in 1..Len(rooms) |->
                 LET slots == _get_possible_slots(block, rooms[i])
                 IN [k \in 1..Len(slots) |-> Assignment(block, slots[k], rooms[i])]])

\* a search that replaces its best candidate on an equal score as well
_schedule_single_block_or_equal(block, current, hallPool, labPool) ==
    LET cands == Candidates(block, hallPool, labPool)
        st == UpdateState(current)
        ok == {i \in 1..Len(cands) :
                 HardVerdict(st, block, cands[i].time_slot, cands[i].room).valid}
        sc == [i \in 1..Len(cands) |->
                 evaluate_soft_constraints(st, block, cands[i].time_slot, cands[i].room)]
    IN IF ok = {} THEN None
       ELSE cands[CHOOSE i \in ok : \A j \in ok :
                     FLess(sc[j], sc[i]) \/ (~ FLess(sc[i], sc[j]) /\ i >= j)]

\* the first valid candidate of greatest soft score, or None
_schedule_single_block(block, current, hallPool, labPool) ==
    LET cands == Candidates(block, hallPool, labPool)
        st == UpdateState(current)
        ok == {i \in 1..Len(cands) :
                 HardVerdict(st, block, cands[i].time_slot, cands[i].room).valid}
        sc == [i \in 1..Len(cands) |->
                 evaluate_soft_constraints(st, block, cands[i].time_slot, cands[i].room)]
    IN IF ok = {} THEN None
       ELSE cands[CHOOSE i \in ok : \A j \in ok :
                     FLess(sc[j], sc[i]) \/ (~ FLess(sc[i], sc[j]) /\ i <= j)]

\* a room swap that only compares the room types
_can_swap_rooms_any_capacity(a1, a2) ==
    a1.block.required_room_type = a2.block.required_room_type

_can_swap_rooms(a1, a2) ==
    /\ a1.block.required_room_type = a2.block.required_room_type
    /\ ~ (a1.room.capacity < a2.block.student_count
          \/ a2.room.capacity < a1.block.student_count)

\* both swapped placements are checked against an empty map
_can_swap_times(a1, a2) ==
    /\ check_all_constraints(a1.block, a2.time_slot, a1.room, <<>>).valid
    /\ check_all_constraints(a2.block, a1.time_slot, a2.room, <<>>).valid

\* a room swap that writes both assignments back with the rooms they had
_swap_rooms_kept(assignments, id1, id2) ==
    LET a1 == assignments[IndexOf(assignments, id1)]
        a2 == assignments[IndexOf(assignments, id2)]
    IN DictPut(DictPut(assignments, a1), a2)

\* a room swap that moves the first block and leaves the second where it was
_swap_rooms_one_way(assignments, id1, id2) ==
    LET a1 == assignments[IndexOf(assignments, id1)]
        a2 == assignments[IndexOf(assignments, id2)]
    IN DictPut(assignments, Assignment(a1.block, a1.time_slot, a2.room))

_swap_rooms(assignments, id1, id2) ==
    LET a1 == assignments[IndexOf(assignments, id1)]
        a2 == assignments[IndexOf(assignments, id2)]
    IN DictPut(DictPut(assignments, Assignment(a1.block, a1.time_slot, a2.room)),
               Assignment(a2.block, a2.time_slot, a1.room))

_swap_times(assignments, id1, id2) ==
    LET a1 == assignments[IndexOf(assignments, id1)]
        a2 == assignments[IndexOf(assignments, id2)]
    IN DictPut(DictPut(assignments, Assignment(a1.block, a2.time_slot, a1.room)),
               Assignment(a2.block, a1.time_slot, a2.room))

\* max_iterations of _local_search, which schedule_blocks leaves at its default
MaxIterations == 100

\* A trial map takes the place of the current one when the swap is allowed
\* and the trial scores strictly higher than the score on record; st is the
\* index the constraint manager holds once the swap has been looked at.
\* The field gained records, for the swaps committed so far, whether each
\* swapped map scored strictly higher than the map it replaced when both are
\* scored against the index the swapped map was scored against.
TrySwap(acc, allowed, trial, trialScore, st) ==
    IF allowed /\ FLess(acc.score, trialScore)
    THEN [cur |-> trial, score |-> trialScore, improved |-> TRUE, st |-> st,
          gained |-> acc.gained /\ FLess(_evaluate_schedule(st, acc.cur), trialScore)]
    ELSE [acc EXCEPT !.st = st]

\* the room swap of one pair, scored against the index left by the last call
RoomSwapStep(acc, a1, a2) ==
    TrySwap(acc, _can_swap_rooms(a1, a2),
            _swap_rooms(acc.cur, a1.block.id, a2.block.id),
            _evaluate_schedule(acc.st, _swap_rooms(acc.cur, a1.block.id, a2.block.id)),
            acc.st)

\* the time swap of one pair: _can_swap_times rebuilds the index from the
\* empty map before the trial is scored
TimeSwapStep(acc, a1, a2) ==
    TrySwap(acc, _can_swap_times(a1, a2),
            _swap_times(acc.cur, a1.block.id, a2.block.id),
            _evaluate_schedule(UpdateState(<<>>),
                               _swap_times(acc.cur, a1.block.id, a2.block.id)),
            UpdateState(<<>>))

\* One pair of one pass.  a1 and a2 are the entries the two iterators hand
\* out (the maps being iterated are not the current map once a swap has been
\* committed); the swaps themselves are applied to the current map.
PairStep(acc, a1, a2) ==
    IF ~ IdLess(a1.block.id, a2.block.id) THEN acc
    ELSE TimeSwapStep(RoomSwapStep(acc, a1, a2), a1, a2)

RECURSIVE InnerLoop(_, _, _, _)
InnerLoop(a1, inner, j, acc) ==
    IF j > Len(inner) THEN acc
    ELSE InnerLoop(a1, inner, j + 1, PairStep(acc, a1, inner[j]))

RECURSIVE OuterLoop(_, _, _)
\* the outer iterator runs over the map as it was when the pass began, the
\* inner one over the map that is current when the outer entry is taken
OuterLoop(outer, i, acc) ==
    IF i > Len(outer) THEN acc
    ELSE OuterLoop(outer, i + 1, InnerLoop(outer[i], acc.cur, 1, acc))

\* a pass that reports a committed swap whether or not it made one
LocalSearchPassFlagged(cur, score, st) ==
    [OuterLoop(cur, 1, [cur |-> cur, score |-> score, improved |-> FALSE, st |-> st,
                        gained |-> TRUE]) EXCEPT !.improved = TRUE]

\* one iteration of the for-loop of _local_search
LocalSearchPass(cur, score, st) ==
    OuterLoop(cur, 1, [cur |-> cur, score |-> score, improved |-> FALSE, st |-> st,
                       gained |-> TRUE])

\* ------------------------------------------------------------ the inputs
Days == {1, 2}

LecturerA(prefs) == StaffMember(1, "lecturer", prefs)
LecturerB(prefs) == StaffMember(2, "lecturer", prefs)
AssistantT(prefs) == StaffMember(3, "ta", prefs)
AssistantU(prefs) == StaffMember(4, "ta", prefs)

\* preferences given as whole-day windows: no session starts with them
WidePrefs == <<TimePreference(1, 8, 19), TimePreference(2, 8, 19)>>
\* preferences given slot by slot, as the base availability is
SlotPrefs == <<Slot(1, 9), Slot(1, 11), Slot(1, 13), Slot(1, 15), Slot(1, 17), Slot(2, 9)>>

Lectures(code, staff, groups) ==
    CourseAssignment(code, groups, <<[staff |-> staff, num_of_groups |-> groups]>>,
                     0, <<>>, TRUE, <<>>)

WithLabs(code, staff, groups, ta, labg, inlab, preferred) ==
    CourseAssignment(code, groups, <<[staff |-> staff, num_of_groups |-> groups]>>,
                     labg, <<[staff |-> ta, num_of_groups |-> labg]>>, inlab, preferred)

HallAvailability ==
    { <<Slot(1, 9)>>,
      <<Slot(1, 11), Slot(1, 15)>>,
      <<Slot(1, 15), Slot(1, 17)>>,
      <<Slot(1, 9), Slot(1, 11), Slot(1, 15)>>,
      <<Slot(1, 9), Slot(1, 15), Slot(1, 17)>>,
      <<Slot(1, 9), Slot(2, 9)>> }

HallCapacities == { <<45, 200>>, <<45, 45>>, <<30, 45>> }

StudentChoices == {40, 100}

\* the lecture-only study plans: lecture groups and lecturer of each course
LecturePlans ==
    LET A == LecturerA(WidePrefs)
        B == LecturerB(WidePrefs)
    IN { <<Lectures(1, A, 1), Lectures(2, B, 1)>>,
         <<Lectures(1, A, 2), Lectures(2, B, 2)>>,
         <<Lectures(1, A, 2), Lectures(2, B, 3)>>,
         <<Lectures(1, A, 1), Lectures(2, B, 2), Lectures(3, A, 2)>>,
         <<Lectures(1, A, 1), Lectures(2, A, 2), Lectures(3, B, 2)>>,
         <<Lectures(1, A, 2), Lectures(2, B, 2), Lectures(3, A, 1)>>,
         <<Lectures(1, LecturerA(SlotPrefs), 1), Lectures(2, LecturerB(SlotPrefs), 1)>>,
         <<Lectures(1, LecturerA(SlotPrefs), 2), Lectures(2, LecturerB(WidePrefs), 2)>> }

HallScenarios ==
    { [halls |-> <<Hall(1, caps[1], av1), Hall(2, caps[2], av2)>>,
       labs |-> <<>>, course_assignments |-> plan, expected_students |-> n] :
        caps \in HallCapacities, av1 \in HallAvailability, av2 \in HallAvailability,
        n \in StudentChoices, plan \in LecturePlans }

LabAvailability ==
    { <<Slot(1, 17)>>, <<Slot(1, 13), Slot(1, 15)>>, <<Slot(1, 9), Slot(1, 13), Slot(1, 15)>> }

\* one hall and two labs; each course has one lecture group and lab groups
LabScenarios ==
    { [halls |-> <<Hall(1, 200, <<Slot(1, 9), Slot(1, 11)>>)>>,
       labs |-> <<Lab(11, 200, av1, u1), Lab(12, 45, av2, TRUE)>>,
       course_assignments |->
          <<WithLabs(1, LecturerA(WidePrefs), 1, AssistantT(WidePrefs), 1, inlab,
                     IF pref1 THEN <<Lab(11, 200, av1, u1)>> ELSE <<>>),
            WithLabs(2, LecturerB(WidePrefs), 1, AssistantU(WidePrefs), 2, TRUE,
                     IF pref2 THEN <<Lab(12, 45, av2, TRUE)>> ELSE <<>>)>>,
       expected_students |-> 40] :
        av1 \in LabAvailability, av2 \in LabAvailability, u1 \in BOOLEAN,
        inlab \in BOOLEAN, pref1 \in BOOLEAN, pref2 \in BOOLEAN }

\* one course with one lecture group, a lecturer who can teach in every base
\* slot, one hall of capacity 200 open in every base slot, 40 students
S1 ==
    [halls |-> <<Hall(1, 200, SlotPrefs)>>, labs |-> <<>>,
     course_assignments |-> <<Lectures(1, LecturerA(SlotPrefs), 1)>>,
     expected_students |-> 40]

\* a hall whose windows start on consecutive hours: two-hour sessions at 9
\* and at 10 overlap; one course with two lecture groups of one lecturer
OffsetHours ==
    [halls |-> <<Hall(1, 200, <<Slot(1, 9), Slot(1, 10)>>)>>, labs |-> <<>>,
     course_assignments |-> <<Lectures(1, LecturerA(WidePrefs), 2)>>,
     expected_students |-> 100]

Scenarios == HallScenarios \cup LabScenarios \cup {S1, OffsetHours}

NoSearch == [cur |-> <<>>, score |-> Zero, iterations |-> 0, gained |-> TRUE]

Init ==
    /\ \E sc \in Scenarios :
          /\ halls = sc.halls
          /\ labs = sc.labs
          /\ course_assignments = sc.course_assignments
          /\ expected_students = sc.expected_students
    /\ max_attempts \in {0, MaxAttempts}
    /\ pc = "idle"
    /\ run = 1
    /\ blocks = <<>>
    /\ attempt = 0
    /\ sorted_blocks = <<>>
    /\ next_block = 1
    /\ current_assignments = <<>>
    /\ unassigned = {}
    /\ best_attempt = None
    /\ state = EmptyState
    /\ ls = NoSearch
    /\ best_origin = "none"
    /\ placed = FALSE
    /\ result = None
    /\ first_result = None
    /\ cancel = FALSE
    /\ evaluated = <<>>
    /\ call = None
    /\ answer = None

\* -------------------------------------------------------------- actions
\* a construction loop that leaves a placed block in unassigned
RemoveForgotten(ids, id) == ids

\* unassigned.remove(block.id)
Remove(ids, id) == ids \ {id}

\* an attempt loop that also ends once the caller's flag is raised
LoopOverOrCancelled == attempt >= max_attempts \/ cancel

\* range(max_attempts) is exhausted
LoopOver == attempt >= max_attempts

\* the record kept of a scored attempt: how it was made, in which attempt
\* of the loop, and the attempt itself
Scored(origin, n, scored) == [origin |-> origin, attempt |-> n, scored |-> scored]

\* an attempt loop that has no early exit
IsPerfectNever(ids, score) == FALSE

\* if not unassigned and attempt_score >= 0.95: break
IsPerfect(ids, score) == ids = {} /\ ~ FLess(score, Perfect)

\* a local-search test that does not look at the unassigned blocks
IsDecentAnyCoverage(ids, score) == ~ FLess(score, Decent)

\* if not unassigned and attempt_score >= 0.7: (reached when the attempt
\* is not perfect)
IsDecent(ids, score) == ids = {} /\ ~ FLess(score, Decent)

\* schedule_blocks is called: the blocks are built and best is reset
ScheduleBlocks ==
    /\ pc = "idle"
    /\ blocks' = ConvertCourseAssignmentsToBlocks(course_assignments, expected_students)
    /\ best_attempt' = None
    /\ best_origin' = "none"
    /\ placed' = FALSE
    /\ evaluated' = <<>>
    /\ attempt' = 0
    /\ pc' = "loop"
    /\ UNCHANGED <<inputs, direct, run, sorted_blocks, next_block, current_assignments,
                   unassigned, state, ls, result, first_result, cancel>>

\* an attempt loop that goes on filling the map of the attempt before
StartAttemptOnHeldMap ==
    /\ pc = "loop"
    /\ ~ LoopOver
    /\ attempt' = attempt + 1
    /\ unassigned' = {blocks[i].id : i \in 1..Len(blocks)}
    /\ sorted_blocks' = _sort_blocks_by_priority(blocks, halls, labs)
    /\ next_block' = 1
    /\ pc' = "construct"
    /\ UNCHANGED <<inputs, direct, evaluated, placed, run, blocks, best_attempt, best_origin, state, ls,
                   result, first_result, cancel, current_assignments>>

\* the head of the attempt loop: a new attempt starts with an empty map
StartAttempt ==
    /\ pc = "loop"
    /\ ~ LoopOver
    /\ attempt' = attempt + 1
    /\ current_assignments' = <<>>
    /\ unassigned' = {blocks[i].id : i \in 1..Len(blocks)}
    /\ sorted_blocks' = _sort_blocks_by_priority(blocks, halls, labs)
    /\ next_block' = 1
    /\ pc' = "construct"
    /\ UNCHANGED <<inputs, direct, evaluated, placed, run, blocks, best_attempt, best_origin, state, ls,
                   result, first_result, cancel>>

\* a construction loop that gives up at the first block it cannot place
NextBlockUnlessFailed(n, assignment) ==
    IF assignment = None THEN Len(sorted_blocks) + 1 ELSE n + 1

\* for block in sorted_blocks: the loop goes on to the next block whatever
\* _schedule_single_block returned
NextBlock(n, assignment) == n + 1

\* one iteration of the construction loop
ScheduleSingleBlock ==
    /\ pc = "construct"
    /\ next_block <= Len(sorted_blocks)
    /\ LET block == sorted_blocks[next_block]
           assignment == _schedule_single_block(block, current_assignments, halls, labs)
       IN /\ IF assignment # None
             THEN /\ current_assignments' = DictPut(current_assignments, assignment)
                  /\ unassigned' = Remove(unassigned, block.id)
                  /\ placed' = TRUE
             ELSE UNCHANGED <<current_assignments, unassigned, placed>>
          \* every candidate checked rebuilds the index from the map
          /\ state' = IF Candidates(block, halls, labs) # <<>>
                      THEN UpdateState(current_assignments)
                      ELSE state
          /\ next_block' = NextBlock(next_block, assignment)
    /\ UNCHANGED <<inputs, direct, evaluated, pc, run, blocks, attempt, sorted_blocks, best_attempt,
                   best_origin, ls, result, first_result, cancel>>

\* the attempt is scored and compared with best; the loop then breaks,
\* enters local search, or goes on to the next attempt
EvaluateAttempt ==
    /\ pc = "construct"
    /\ next_block > Len(sorted_blocks)
    /\ LET attempt_score == _evaluate_schedule(state, current_assignments)
           current_attempt == SchedulingAttempt(current_assignments, attempt_score,
                                                unassigned)
           better == _is_better_attempt(best_attempt, current_attempt)
       IN /\ best_attempt' = Retain(best_attempt, current_attempt)
          /\ best_origin' = IF better THEN "greedy" ELSE best_origin
          /\ evaluated' = Append(evaluated, Scored("constructed", attempt, current_attempt))
          /\ IF IsPerfect(unassigned, attempt_score)
             THEN /\ pc' = "return"
                  /\ ls' = ls
             ELSE IF IsDecent(unassigned, attempt_score)
             THEN /\ pc' = "local_search"
                  \* _local_search scores its copy against the same index
                  /\ ls' = [cur |-> current_assignments,
                            score |-> _evaluate_schedule(state, current_assignments),
                            iterations |-> 0, gained |-> TRUE]
             ELSE /\ pc' = "loop"
                  /\ ls' = ls
    /\ UNCHANGED <<inputs, direct, placed, run, blocks, attempt, sorted_blocks, next_block,
                   current_assignments, unassigned, state, result, first_result, cancel>>

\* a pass that swaps in the caller's map instead of a copy: the map under
\* construction changes, and so does best when it holds that same map
LocalSearchIterationInPlace ==
    /\ pc = "local_search"
    /\ ls.iterations < MaxIterations
    /\ LET r == LocalSearchPass(ls.cur, ls.score, state)
       IN /\ ls' = [cur |-> r.cur, score |-> r.score, iterations |-> ls.iterations + 1,
                    gained |-> ls.gained /\ r.gained]
          /\ state' = r.st
          /\ pc' = IF r.improved THEN "local_search" ELSE "improved"
          /\ current_assignments' = r.cur
          /\ best_attempt' = IF best_attempt # None
                                  /\ best_attempt.assignments = current_assignments
                               THEN [best_attempt EXCEPT !.assignments = r.cur]
                               ELSE best_attempt
    /\ UNCHANGED <<inputs, direct, evaluated, placed, run, blocks, attempt, sorted_blocks, next_block,
                   unassigned, best_origin, result, first_result, cancel>>

\* one iteration of the loop of _local_search
LocalSearchIteration ==
    /\ pc = "local_search"
    /\ ls.iterations < MaxIterations
    /\ LET r == LocalSearchPass(ls.cur, ls.score, state)
       IN /\ ls' = [cur |-> r.cur, score |-> r.score, iterations |-> ls.iterations + 1,
                    gained |-> ls.gained /\ r.gained]
          /\ state' = r.st
          /\ pc' = IF r.improved THEN "local_search" ELSE "improved"
    /\ UNCHANGED <<inputs, direct, evaluated, placed, run, blocks, attempt, sorted_blocks, next_block,
                   current_assignments, unassigned, best_attempt, best_origin,
                   result, first_result, cancel>>

\* _local_search has returned: its map is scored and compared with best
FinishLocalSearch ==
    /\ \/ pc = "improved"
       \/ pc = "local_search" /\ ls.iterations >= MaxIterations
    /\ LET improved_attempt == SchedulingAttempt(ls.cur, _evaluate_schedule(state, ls.cur), {})
           better == _is_better_attempt(best_attempt, improved_attempt)
       IN /\ best_attempt' = Retain(best_attempt, improved_attempt)
          /\ best_origin' = IF better THEN "local_search" ELSE best_origin
          /\ evaluated' = Append(evaluated, Scored("improved", attempt, improved_attempt))
    /\ pc' = "loop"
    /\ UNCHANGED <<inputs, direct, placed, run, blocks, attempt, sorted_blocks, next_block,
                   current_assignments, unassigned, state, ls, result, first_result,
                   cancel>>

\* what a call delivers: the error raised, or the map returned
Failure == [error |-> "Could not find a valid schedule"]
Returned(assignments) == [assignments |-> assignments]

\* the loop is over (exhausted or broken out of): raise or return
Return ==
    /\ \/ pc = "return"
       \/ pc = "loop" /\ LoopOver
    /\ result' = IF best_attempt = None THEN Failure
                 ELSE Returned(best_attempt.assignments)
    /\ pc' = "done"
    /\ UNCHANGED <<inputs, direct, evaluated, placed, run, blocks, attempt, sorted_blocks, next_block,
                   current_assignments, unassigned, best_attempt, best_origin, state,
                   ls, first_result, cancel>>

\* the same engine and constraint manager are used for a second call with
\* the same arguments
CallAgain ==
    /\ pc = "done"
    /\ run = 1
    /\ run' = 2
    /\ first_result' = result
    /\ result' = None
    /\ pc' = "idle"
    /\ UNCHANGED <<inputs, direct, evaluated, placed, blocks, attempt, sorted_blocks, next_block,
                   current_assignments, unassigned, best_attempt, best_origin, state,
                   ls, cancel>>

\* the caller raises its cancel flag while the first attempt is constructed
RaiseCancel ==
    /\ pc = "construct"
    /\ attempt = 1
    /\ run = 1
    /\ ~ cancel
    /\ cancel' = TRUE
    /\ UNCHANGED <<inputs, direct, evaluated, placed, pc, run, blocks, attempt, sorted_blocks, next_block,
                   current_assignments, unassigned, best_attempt, best_origin, state,
                   ls, result, first_result>>

Next ==
    \/ ScheduleBlocks
    \/ StartAttempt
    \/ ScheduleSingleBlock
    \/ EvaluateAttempt
    \/ LocalSearchIteration
    \/ FinishLocalSearch
    \/ Return
    \/ CallAgain
    \/ RaiseCancel

Spec == Init /\ [][Next]_vars

\* a pass of the loop of _local_search is due: LocalSearchIteration is enabled
PassDue == pc = "local_search" /\ ls.iterations < MaxIterations

\* _local_search has a result to hand back: FinishLocalSearch is enabled
ReturnDue == pc = "improved" \/ (pc = "local_search" /\ ls.iterations >= MaxIterations)

\* _local_search is straight-line code inside one call: once entered, each
\* pass of its loop and its return do run. This is WF_vars of the two
\* actions, written out with their guards for ENABLED.
LiveSpec ==
    /\ Spec
    /\ []<>(~ PassDue) \/ []<><<LocalSearchIteration>>_vars
    /\ []<>(~ ReturnDue) \/ []<><<FinishLocalSearch>>_vars

\* --------------------------------------------------------- direct calls
\* The operations below are also called on their own, as the unit tests do:
\* a constraint manager, a resource manager and an engine are constructed
\* and one operation is applied to arguments built by hand.

\* __post_init__ of the CourseAssignment the scheduler imports: the error it
\* raises, or None
__post_init__(c) ==
    IF c.lecture_groups <= 0
        THEN [error |-> "Must have at least one lecture group"]
    ELSE IF c.lecturers = <<>>
        THEN [error |-> "Must have at least one lecturer assigned"]
    ELSE IF SumSeq([i \in 1..Len(c.lecturers) |-> c.lecturers[i].num_of_groups])
              # c.lecture_groups
        THEN [error |-> "Sum of lecturer groups must equal total lecture groups"]
    ELSE IF c.lab_groups > 0 /\ c.teaching_assistants = <<>>
        THEN [error |-> "Must assign teaching assistants if lab groups exist"]
    ELSE IF c.lab_groups > 0
              /\ SumSeq([i \in 1..Len(c.teaching_assistants) |->
                            c.teaching_assistants[i].num_of_groups]) # c.lab_groups
        THEN [error |-> "Sum of teaching assistant groups must equal total lab groups"]
    ELSE None

BaseSlots == <<Slot(1, 9), Slot(1, 11)>>

\* the courses of a plan the builder is called with, and the lab groups of one
MaxBuilderCourses == 2
MaxBuilderGroups == 3

\* the assignments of a map update_state is called with
MaxUpdateLen == 2

\* the assignments of a map evaluate_gaps is called on
MaxGapLen == 3

\* the largest student count evaluate_room_capacity is called with
MaxProbeStudents == 24

ProbeHalls == <<Hall(1, 45, BaseSlots), Hall(2, 200, <<Slot(1, 9)>>)>>

\* Lab 11 is a specialist lab, Lab 12 a general one
ProbeLabs == <<Lab(11, 200, BaseSlots, FALSE), Lab(12, 45, <<Slot(1, 9)>>, TRUE)>>

ProbeRooms == Range(ProbeHalls) \cup Range(ProbeLabs)

\* a single-group course with a preferred lab, and a two-group course
\* without one
ProbePlan ==
    << WithLabs(1, LecturerA(SlotPrefs), 1, AssistantT(SlotPrefs), 1, TRUE,
                <<ProbeLabs[1]>>),
       WithLabs(2, LecturerB(SlotPrefs), 2, AssistantU(SlotPrefs), 2, TRUE, <<>>) >>

ProbeBlocks(students) == Range(ConvertCourseAssignmentsToBlocks(ProbePlan, students))

\* the i-th block of the probe plan, for 40 students
ProbePlanBlock(i) == ConvertCourseAssignmentsToBlocks(ProbePlan, 40)[i]

\* the empty map and the maps of one assignment
ProbeMaps ==
    {<<>>} \cup { <<Assignment(b, s, r)>> :
                    b \in ProbeBlocks(40), s \in Range(BaseSlots), r \in ProbeRooms }

CheckAllCalls ==
    { [op |-> "check_all_constraints", block |-> b, slot |-> s, room |-> r,
       assignments |-> A] :
        b \in ProbeBlocks(40), s \in Range(BaseSlots), r \in ProbeRooms,
        A \in ProbeMaps }

SuitableRoomsCalls ==
    { [op |-> "get_suitable_rooms", block |-> b] :
        b \in ProbeBlocks(40) \cup ProbeBlocks(100) \cup ProbeBlocks(180) }

ProbeScores == { Zero, Decent, Double(15, 0, 20), Perfect, Double(20, 0, 20) }

ProbeAttempts ==
    { SchedulingAttempt(<<>>, sc, u) :
        sc \in ProbeScores,
        u \in { {}, {BlockId("L", 1, 1, 1)}, {BlockId("L", 1, 1, 1), BlockId("L", 2, 2, 1)} } }

IsBetterCalls ==
    { [op |-> "_is_better_attempt", best |-> b, new |-> n] :
        b \in {None} \cup ProbeAttempts, n \in ProbeAttempts }

\* the staff lists a course assignment is constructed with
ProbeStaffLists(staff) ==
    { <<>>, <<[staff |-> staff, num_of_groups |-> 1]>>,
      <<[staff |-> staff, num_of_groups |-> 2]>> }

CourseAssignmentCalls ==
    { [op |-> "CourseAssignment",
       course |-> CourseAssignment(1, lg, ls1, labg, tas, inlab, pref)] :
        lg \in 0..2, ls1 \in ProbeStaffLists(LecturerA(SlotPrefs)),
        labg \in 0..2, tas \in ProbeStaffLists(AssistantT(SlotPrefs)),
        inlab \in BOOLEAN, pref \in { <<>>, <<ProbeLabs[1]>> } }

Groups(pairs) == SumSeq([i \in 1..Len(pairs) |-> pairs[i].num_of_groups])

\* the staff lists the builder is called with: one pair, two pairs, a pair
\* of no group, and the same member listed twice
BuilderStaffLists(first, second) ==
    { <<[staff |-> first, num_of_groups |-> 1]>>,
      <<[staff |-> first, num_of_groups |-> 1], [staff |-> second, num_of_groups |-> 2]>>,
      <<[staff |-> first, num_of_groups |-> 1], [staff |-> second, num_of_groups |-> 0],
        [staff |-> first, num_of_groups |-> 1]>> }

\* the course assignments CourseAssignment(...) constructs from them; one
\* without lab groups may still list teaching assistants
BuilderCourses ==
    { c \in { CourseAssignment(code, Groups(lecturers), lecturers, labg, tas, inlab, <<>>) :
                code \in 1..MaxBuilderCourses,
                lecturers \in BuilderStaffLists(LecturerA(SlotPrefs), LecturerB(SlotPrefs)),
                tas \in BuilderStaffLists(AssistantT(SlotPrefs), AssistantU(SlotPrefs)),
                labg \in 0..MaxBuilderGroups, inlab \in BOOLEAN } :
        __post_init__(c) = None }

\* the course lists of a study plan: StudyPlan(...) asks for a list that is
\* not empty and for a positive number of students
BuilderPlans ==
    { <<c>> : c \in BuilderCourses } \cup { <<c, d>> : c, d \in BuilderCourses }

BuilderStudents == {40, 100}

ConvertCalls ==
    { [op |-> "_convert_course_assignments_to_blocks", course_assignments |-> plan,
       expected_students |-> n] :
        plan \in BuilderPlans, n \in BuilderStudents }

\* the maps a constraint manager was given by the calls made on it before
\* the call looked at: one assignment, and two of one course at one slot
EarlierMaps ==
    { << Assignment(ProbePlanBlock(1), BaseSlots[1], ProbeHalls[1]) >>,
      << Assignment(ProbePlanBlock(3), BaseSlots[2], ProbeHalls[1]),
         Assignment(ProbePlanBlock(4), BaseSlots[2], ProbeHalls[2]) >> }

\* check_all_constraints on a manager that has served an earlier call
RepeatedCheckCalls ==
    { [op |-> "check_all_constraints", block |-> c.block, slot |-> c.slot, room |-> c.room,
       assignments |-> c.assignments, earlier |-> <<E>>, served |-> 0] :
        c \in CheckAllCalls, E \in EarlierMaps }

\* the maps update_state is called with: up to MaxUpdateLen assignments of
\* distinct blocks, in halls, whether or not they fit together
UpdateMaps ==
    LET one == { Assignment(b, sl, r) :
                   b \in ProbeBlocks(40), sl \in Range(BaseSlots), r \in Range(ProbeHalls) }
        RECURSIVE upTo(_)
        upTo(n) == IF n = 0 THEN {<<>>}
                   ELSE upTo(n - 1) \cup
                        { Append(m, a) : m \in { x \in upTo(n - 1) : Len(x) = n - 1 },
                                         a \in one }
    IN { m \in upTo(MaxUpdateLen) :
           \A i, j \in 1..Len(m) : i # j => m[i].block.id # m[j].block.id }

UpdateStateCalls ==
    { [op |-> "update_state", assignments |-> A, earlier |-> e, served |-> 0] :
        A \in UpdateMaps, e \in {<<>>} \cup { <<E>> : E \in EarlierMaps } }

\* the maps the index is built from before evaluate_gaps is called: up to
\* MaxGapLen blocks of the probe plan in hall 1, each at any of the six slots
\* staff ask for, in any order of their hours
GapMaps ==
    LET at(i, sl) == Assignment(ProbePlanBlock(i), sl, ProbeHalls[1])
    IN UNION { { [i \in 1..n |-> at(i, f[i])] : f \in [1..n -> Range(SlotPrefs)] } :
                 n \in 0..MaxGapLen }

\* the candidate is a block of the plan, or one of another academic level
EvaluateGapsCalls ==
    { [op |-> "evaluate_gaps", block |-> b, slot |-> sl, room |-> ProbeHalls[1],
       assignments |-> A] :
        b \in { ProbePlanBlock(MaxGapLen + 1),
                [ProbePlanBlock(MaxGapLen + 1) EXCEPT !.academic_level = AcademicLevel + 1] },
        sl \in Range(SlotPrefs), A \in GapMaps }

\* a block of 0..MaxProbeStudents students in a hall of 7, 10 or 20 seats:
\* every band of the utilization and each of its ends
CapacityCalls ==
    { [op |-> "evaluate_room_capacity",
       block |-> [ProbePlanBlock(1) EXCEPT !.student_count = c],
       slot |-> BaseSlots[1], room |-> Hall(1, cap, BaseSlots)] :
        c \in 0..MaxProbeStudents, cap \in {7, 10, 20} }

Calls ==
    CapacityCalls \cup
    EvaluateGapsCalls \cup
    CheckAllCalls \cup SuitableRoomsCalls \cup IsBetterCalls \cup CourseAssignmentCalls
        \cup ConvertCalls \cup RepeatedCheckCalls \cup UpdateStateCalls

\* freshly constructed managers and engine, and the call about to be made
DirectInit ==
    /\ halls = ProbeHalls
    /\ labs = ProbeLabs
    /\ course_assignments = <<>>
    /\ expected_students = 40
    /\ max_attempts = 0
    /\ pc = "call"
    /\ run = 1
    /\ blocks = <<>>
    /\ attempt = 0
    /\ sorted_blocks = <<>>
    /\ next_block = 1
    /\ current_assignments = <<>>
    /\ unassigned = {}
    /\ best_attempt = None
    /\ state = EmptyState
    /\ ls = NoSearch
    /\ best_origin = "none"
    /\ placed = FALSE
    /\ result = None
    /\ first_result = None
    /\ cancel = FALSE
    /\ evaluated = <<>>
    /\ call \in Calls
    /\ answer = None

engine == <<pc, run, blocks, attempt, sorted_blocks, next_block, current_assignments,
            unassigned, best_attempt, ls, best_origin, placed, result, first_result,
            cancel, evaluated>>

\* the manager still has an earlier call to serve before the call looked at
Pending == "earlier" \in DOMAIN call /\ call.served < Len(call.earlier)

\* an earlier call on the same manager: whichever operation it was, what it
\* leaves behind is update_state of the map it was given
CallEarlier ==
    /\ pc = "call"
    /\ Pending
    /\ answer = None
    /\ state' = UpdateState(call.earlier[call.served + 1])
    /\ call' = [call EXCEPT !.served = @ + 1]
    /\ UNCHANGED <<inputs, engine, answer>>

\* constraint_manager.evaluate_gaps(block, slot, room) on the index that
\* update_state(assignments) built
CallEvaluateGaps ==
    /\ pc = "call"
    /\ call.op = "evaluate_gaps"
    /\ answer = None
    /\ state' = UpdateState(call.assignments)
    /\ answer' = [score |-> evaluate_gaps(UpdateState(call.assignments), call.block,
                                          call.slot, call.room)]
    /\ UNCHANGED <<inputs, engine, call>>

\* constraint_manager.evaluate_room_capacity(block, slot, room)
CallEvaluateRoomCapacity ==
    /\ pc = "call"
    /\ call.op = "evaluate_room_capacity"
    /\ answer = None
    /\ answer' = [score |-> evaluate_room_capacity(state, call.block, call.slot,
                                                   call.room)]
    /\ UNCHANGED <<inputs, engine, state, call>>

\* constraint_manager.update_state(assignments)
CallUpdateState ==
    /\ pc = "call"
    /\ call.op = "update_state"
    /\ ~ Pending
    /\ answer = None
    /\ state' = UpdateState(call.assignments)
    /\ answer' = [done |-> TRUE]
    /\ UNCHANGED <<inputs, engine, call>>

\* constraint_manager.check_all_constraints(block, slot, room, assignments)
CallCheckAll ==
    /\ pc = "call"
    /\ call.op = "check_all_constraints"
    /\ ~ Pending
    /\ answer = None
    /\ answer' = check_all_constraints(call.block, call.slot, call.room, call.assignments)
    /\ state' = UpdateState(call.assignments)
    /\ UNCHANGED <<inputs, engine, call>>

\* resource_manager.get_suitable_rooms(block)
CallSuitableRooms ==
    /\ pc = "call"
    /\ call.op = "get_suitable_rooms"
    /\ answer = None
    /\ answer' = [rooms |-> GetSuitableRooms(call.block, halls, labs)]
    /\ UNCHANGED <<inputs, engine, state, call>>

\* engine._is_better_attempt(new) with engine.best_attempt = best
CallIsBetter ==
    /\ pc = "call"
    /\ call.op = "_is_better_attempt"
    /\ answer = None
    /\ answer' = [better |-> _is_better_attempt(call.best, call.new)]
    /\ UNCHANGED <<inputs, engine, state, call>>

\* CourseAssignment(...): the object, or the error __post_init__ raises
CallCourseAssignment ==
    /\ pc = "call"
    /\ call.op = "CourseAssignment"
    /\ answer = None
    /\ answer' = IF __post_init__(call.course) = None
                 THEN [course |-> call.course]
                 ELSE __post_init__(call.course)
    /\ UNCHANGED <<inputs, engine, state, call>>

\* engine._convert_course_assignments_to_blocks(course_assignments, study_plan)
CallConvert ==
    /\ pc = "call"
    /\ call.op = "_convert_course_assignments_to_blocks"
    /\ answer = None
    /\ answer' = [blocks |-> ConvertCourseAssignmentsToBlocks(call.course_assignments,
                                                              call.expected_students)]
    /\ UNCHANGED <<inputs, engine, state, call>>

DirectNext ==
    \/ CallCheckAll
    \/ CallSuitableRooms
    \/ CallIsBetter
    \/ CallCourseAssignment
    \/ CallConvert
    \/ CallEarlier
    \/ CallUpdateState
    \/ CallEvaluateGaps
    \/ CallEvaluateRoomCapacity

DirectSpec == DirectInit /\ [][DirectNext]_vars

\* ------------------------------------------------------------ properties
IsMap(r) == "assignments" \in DOMAIN r

\* the map the finished call returned (empty when it raised)
ReturnedMap == IF IsMap(result) THEN result.assignments ELSE <<>>

Distinct(A) == {p \in (1..Len(A)) \X (1..Len(A)) : p[1] # p[2]}

\* C1: in a returned map no two distinct assignments have the same room id
\* and the same (day, start_time)
C1_NoDoubleRoomBooking ==
    \A p \in Distinct(ReturnedMap) :
        ReturnedMap[p[1]].room.id = ReturnedMap[p[2]].room.id
            => SlotKey(ReturnedMap[p[1]].time_slot) # SlotKey(ReturnedMap[p[2]].time_slot)

\* C2: in a returned map no two distinct assignments of the same staff
\* member have the same (day, start_time)
C2_NoDoubleStaffBooking ==
    \A p \in Distinct(ReturnedMap) :
        ReturnedMap[p[1]].block.staff_member.id = ReturnedMap[p[2]].block.staff_member.id
            => SlotKey(ReturnedMap[p[1]].time_slot) # SlotKey(ReturnedMap[p[2]].time_slot)

\* C3: in a returned map a single-group block shares its
\* (academic_list, day, start_time) with no other block
C3_SingleGroupAlone ==
    \A p \in Distinct(ReturnedMap) :
        LET a == ReturnedMap[p[1]]
            b == ReturnedMap[p[2]]
        IN (/\ a.block.is_single_group_course
            /\ a.block.academic_list = b.block.academic_list)
              => SlotKey(a.time_slot) # SlotKey(b.time_slot)

\* C4: in a returned map a lab block is in a Lab, one of its preferred rooms
\* if it has any and a non-specialist lab otherwise, and a hall block is in
\* a Hall
C4_LabRequirements ==
    \A i \in 1..Len(ReturnedMap) :
        LET a == ReturnedMap[i]
        IN /\ a.block.required_room_type = "lab" =>
                /\ a.room.kind = "lab"
                /\ IF a.block.preferred_rooms # <<>>
                   THEN a.room \in Range(a.block.preferred_rooms)
                   ELSE a.room.used_in_non_specialist_courses
           /\ a.block.required_room_type = "hall" => a.room.kind = "hall"

\* C5: in a returned map every room has an availability window on the
\* slot's day that contains the slot
C5_RoomAvailable ==
    \A i \in 1..Len(ReturnedMap) :
        \E k \in 1..Len(ReturnedMap[i].room.availability) :
            LET w == ReturnedMap[i].room.availability[k]
                s == ReturnedMap[i].time_slot
            IN w.day = s.day /\ w.start_time <= s.start_time /\ w.end_time >= s.end_time

\* the number of blocks of one course and one type among the map's
\* assignments, and among a set of block ids
AssignedOf(assignments, code, type) ==
    Cardinality({k \in 1..Len(assignments) :
                    /\ assignments[k].block.course_code = code
                    /\ assignments[k].block.block_type = type})

UnassignedOf(ids, code, letter) ==
    Cardinality({id \in ids : id[1] = letter /\ id[2] = code})

\* C6: for the attempt retained as best, per course the lecture assignments
\* of the map plus the course's lecture ids in unassigned are lecture_groups,
\* likewise for labs and lab_groups, and every built block is in exactly one
\* of the map and unassigned
C6_BlocksConserved ==
    best_attempt # None =>
        LET A == best_attempt.assignments
            U == best_attempt.unassigned_blocks
        IN /\ \A i \in 1..Len(course_assignments) :
                LET c == course_assignments[i]
                IN /\ AssignedOf(A, c.course_code, "lecture")
                        + UnassignedOf(U, c.course_code, "L") = c.lecture_groups
                   /\ AssignedOf(A, c.course_code, "lab")
                        + UnassignedOf(U, c.course_code, "P") = c.lab_groups
           /\ \A j \in 1..Len(blocks) :
                (blocks[j].id \in Keys(A)) # (blocks[j].id \in U)

\* a best attempt that placed some blocks and left others unassigned
C6_Witness ==
    /\ pc = "done"
    /\ best_attempt # None
    /\ best_attempt.assignments # <<>>
    /\ best_attempt.unassigned_blocks # {}

C8_Deterministic ==
    (pc = "done" /\ run = 2) => result = first_result

\* a second call that returned a non-empty map on top of the index the
\* first call left behind
C8_Witness ==
    /\ pc = "done"
    /\ run = 2
    /\ IsMap(result)
    /\ result.assignments # <<>>
    /\ state.current_assignments # <<>>

\* C9: a call none of whose attempts placed a block fails with
\* "Could not find a valid schedule"
C9_FailsWhenNothingPlaced ==
    (pc = "done" /\ ~ placed) => result = Failure

\* C10 as stated: once the flag is raised, the engine stops at the next
\* point between two attempts and delivers its result
C10_StopsOnCancel ==
    [][(cancel /\ pc = "loop") => pc' = "done"]_vars

\* C10: the flag is never read: with the flag raised and attempts left the
\* next attempt starts, and local search runs on until no pass improves or
\* the iteration bound is reached
C10_CancelNotObserved ==
    [][cancel =>
          /\ (pc = "loop" /\ attempt < max_attempts) => pc' = "construct"
          /\ (pc = "local_search" /\ ls.iterations < MaxIterations)
                => pc' \in {"local_search", "improved"}]_vars

\* an attempt under construction that was started after the flag was raised
C10_Witness ==
    /\ cancel
    /\ pc = "construct"
    /\ attempt = 2

\* --------------------------------------- properties of the direct calls
\* a direct call of check_all_constraints has returned
CheckAllAnswered == call.op = "check_all_constraints" /\ answer # None

\* the map holds an assignment in the candidate room at the candidate slot
RoomTaken ==
    \E i \in 1..Len(call.assignments) :
        /\ call.assignments[i].room.id = call.room.id
        /\ SlotKey(call.assignments[i].time_slot) = SlotKey(call.slot)

\* the map holds an assignment of the candidate's staff member at the slot
StaffTaken ==
    \E i \in 1..Len(call.assignments) :
        /\ call.assignments[i].block.staff_member.id = call.block.staff_member.id
        /\ SlotKey(call.assignments[i].time_slot) = SlotKey(call.slot)

\* the room has an availability window containing the slot
RoomOpen ==
    \E i \in 1..Len(call.room.availability) :
        Contains(call.room.availability[i], call.slot)

\* the room is of the kind the block requires and meets its lab requirements
RoomFits ==
    IF call.block.required_room_type = "lab"
    THEN /\ call.room.kind = "lab"
         /\ IF call.block.preferred_rooms # <<>>
            THEN call.room \in Range(call.block.preferred_rooms)
            ELSE call.room.used_in_non_specialist_courses
    ELSE call.room.kind = "hall"

\* the five hard constraints in registration order: whether each holds on
\* the index the call built, and its description
Holds ==
    << check_room_booking(state, call.block, call.slot, call.room),
       check_staff_booking(state, call.block, call.slot, call.room),
       check_room_availability(state, call.block, call.slot, call.room),
       check_single_group_conflict(state, call.block, call.slot, call.room),
       check_lab_requirements(state, call.block, call.slot, call.room) >>

Descriptions ==
    << "No double room booking",
       "No double staff booking",
       "Room must be available in the given time slot",
       "Single group courses cannot have parallel sessions",
       "Lab specialization and preferences must be met" >>

\* C11: check_all_constraints returns (true, None) exactly when the five
\* hard constraints hold, and otherwise (false, description of the first
\* constraint, in registration order, that fails)
C11_FirstFailureReported ==
    CheckAllAnswered =>
        LET failing == {i \in 1..5 : ~ Holds[i]}
        IN IF failing = {}
           THEN answer.valid /\ answer.reason = "None"
           ELSE /\ ~ answer.valid
                /\ answer.reason = Descriptions[CHOOSE i \in failing :
                                                  \A j \in failing : i <= j]

\* a call in which the room check and the staff check both fail, and the
\* room check's description is the one returned
C11_Witness ==
    /\ CheckAllAnswered
    /\ ~ Holds[1]
    /\ ~ Holds[2]
    /\ answer.reason = "No double room booking"

\* C12: check_all_constraints returns false when the map holds an
\* assignment in the same room at the slot, and when it holds an assignment
\* of the same staff member at the slot, also under the candidate's own id;
\* with an empty map an available room that fits the block is accepted
C12_BookedRejected ==
    CheckAllAnswered =>
        /\ RoomTaken => ~ answer.valid
        /\ StaffTaken => ~ answer.valid
        /\ (call.assignments = <<>> /\ RoomOpen /\ RoomFits) => answer.valid

\* a rejected call whose map holds the candidate block itself at the slot,
\* in another room
C12_Witness ==
    /\ CheckAllAnswered
    /\ ~ answer.valid
    /\ ~ RoomTaken
    /\ \E i \in 1..Len(call.assignments) :
          /\ call.assignments[i].block.id = call.block.id
          /\ SlotKey(call.assignments[i].time_slot) = SlotKey(call.slot)

\* the map holds a block of the candidate lecture's lecturer and course at
\* the candidate slot
SameLecturerAndCourse ==
    /\ call.block.block_type = "lecture"
    /\ \E i \in 1..Len(call.assignments) :
          /\ call.assignments[i].block.staff_member.id = call.block.staff_member.id
          /\ call.assignments[i].block.course_code = call.block.course_code
          /\ SlotKey(call.assignments[i].time_slot) = SlotKey(call.slot)

\* C13 as stated: such a call fails with the reason "No double staff
\* booking", whichever room the candidate placement uses
C13_StaffReasonAnyRoom ==
    (CheckAllAnswered /\ SameLecturerAndCourse) =>
        ~ answer.valid /\ answer.reason = "No double staff booking"

\* C13: such a call fails; the reason is "No double staff booking" when the
\* candidate room is not booked at the slot, and "No double room booking"
\* when it is
C13_StaffReasonUnlessRoomTaken ==
    (CheckAllAnswered /\ SameLecturerAndCourse) =>
        /\ ~ answer.valid
        /\ answer.reason = IF RoomTaken THEN "No double room booking"
                           ELSE "No double staff booking"

\* the second placement used the room the first one holds
C13_Witness ==
    /\ CheckAllAnswered
    /\ SameLecturerAndCourse
    /\ RoomTaken
    /\ answer.reason = "No double room booking"

GroupsTotal(list, n) == SumSeq([i \in 1..Len(list) |-> list[i].num_of_groups]) = n

\* C15: constructing a CourseAssignment with lab groups, practical_in_lab
\* and no preferred labs raises a validation error, as does a lecturer-group
\* total other than lecture_groups or a TA-group total other than lab_groups
C15_LabsNeedPreference ==
    (call.op = "CourseAssignment" /\ answer # None) =>
        LET c == call.course
        IN (\/ c.lab_groups > 0 /\ c.practical_in_lab /\ c.preferred_labs = <<>>
            \/ ~ GroupsTotal(c.lecturers, c.lecture_groups)
            \/ c.lab_groups > 0 /\ ~ GroupsTotal(c.teaching_assistants, c.lab_groups))
              => "error" \in DOMAIN answer

\* C17: get_suitable_rooms returns exactly the rooms of the required type
\* with capacity >= 0.8 * student_count; for a lab block these are labs,
\* the preferred ones when preferred_rooms is non-empty and otherwise the
\* labs with used_in_non_specialist_courses
C17_SuitableRooms ==
    (call.op = "get_suitable_rooms" /\ answer # None) =>
        LET b == call.block
            wanted == { r \in Range(halls) \cup Range(labs) :
                          /\ r.kind = b.required_room_type
                          /\ 10 * r.capacity >= 8 * b.student_count
                          /\ r.kind = "lab" =>
                                IF b.preferred_rooms # <<>>
                                THEN r \in Range(b.preferred_rooms)
                                ELSE r.used_in_non_specialist_courses }
        IN /\ Range(answer.rooms) = wanted
           /\ Len(answer.rooms) = Cardinality(wanted)

\* a block of 180 students for which only the hall of 200 seats is returned
C17_Witness ==
    /\ call.op = "get_suitable_rooms"
    /\ answer # None
    /\ call.block.student_count = 180
    /\ call.block.required_room_type = "hall"
    /\ answer.rooms = <<halls[2]>>
    /\ halls[1].capacity = 45

\* x > y for two scores over the same denominator
ScoreAbove(x, y) == x.k > y.k \/ (x.k = y.k /\ x.d > y.d)

\* C18: _is_better_attempt is true when there is no best, when the new
\* attempt has fewer unassigned blocks, and when the counts are equal and
\* the new score is strictly higher; it is false otherwise, so an attempt of
\* equal coverage and equal score does not replace best
C18_StrictLexicographic ==
    (call.op = "_is_better_attempt" /\ answer # None) =>
        answer.better =
            (\/ call.best = None
             \/ /\ call.best # None
                /\ LET nb == Cardinality(call.best.unassigned_blocks)
                       nn == Cardinality(call.new.unassigned_blocks)
                   IN \/ nn < nb
                      \/ nn = nb /\ ScoreAbove(call.new.score, call.best.score))

\* an attempt of the same coverage and score as best, not taken
C18_Witness ==
    /\ call.op = "_is_better_attempt"
    /\ answer # None
    /\ call.best # None
    /\ call.best.unassigned_blocks = call.new.unassigned_blocks
    /\ call.best.score = call.new.score
    /\ ~ answer.better

\* -------------------------------------------- properties of whole runs
\* a call on scenario S1 with at least one attempt has finished
S1Done ==
    /\ pc = "done"
    /\ max_attempts > 0
    /\ halls = S1.halls /\ labs = S1.labs
    /\ course_assignments = S1.course_assignments
    /\ expected_students = S1.expected_students

\* the call returned one assignment, in the hall, at a slot of the hall's
\* availability, and the attempt scored at least 0.7
S1Placed ==
    /\ IsMap(result)
    /\ Len(result.assignments) = 1
    /\ result.assignments[1].room = halls[1]
    /\ result.assignments[1].time_slot \in Range(halls[1].availability)
    /\ ~ FLess(best_attempt.score, Decent)

\* C16 as stated: in S1 one assignment is returned, in the hall, within
\* base availability, with score >= 0.7, and the utilization
\* student_count / capacity lies in the band 0.3 <= u < 0.5
C16_S1InMiddleBand ==
    S1Done =>
        /\ S1Placed
        /\ LET a == result.assignments[1]
           IN /\ 10 * a.block.student_count >= 3 * a.room.capacity
              /\ 10 * a.block.student_count < 5 * a.room.capacity

\* C16: in S1 one assignment is returned, in the hall, within base
\* availability, with score >= 0.7; the utilization is 40 / 200 = 0.2, in
\* the band u < 0.3, for which the capacity constraint scores 0.3
C16_S1InLowBand ==
    S1Done =>
        /\ S1Placed
        /\ LET a == result.assignments[1]
           IN /\ 10 * a.block.student_count < 3 * a.room.capacity
              /\ evaluate_room_capacity(state, a.block, a.time_slot, a.room) = 3

\* S1 has been scheduled and its single assignment returned
C16_Witness ==
    /\ S1Done
    /\ IsMap(result)
    /\ result.assignments # <<>>
    /\ result.assignments[1].block.student_count = 40
    /\ result.assignments[1].room.capacity = 200

\* attempt x beats attempt y: fewer unassigned blocks, or as many and a
\* strictly higher score
Beats(x, y) ==
    \/ Cardinality(x.unassigned_blocks) < Cardinality(y.unassigned_blocks)
    \/ /\ Cardinality(x.unassigned_blocks) = Cardinality(y.unassigned_blocks)
       /\ FLess(y.score, x.score)

\* C19: within a run the retained best never gets worse (its unassigned
\* count never increases and, at an unchanged count, its score never
\* decreases), and at return no attempt scored during the run, constructed
\* or improved by local search, beats the one returned
C19_BestNeverWorse ==
    /\ [][(best_attempt # None /\ best_attempt' # None)
            => ~ Beats(best_attempt, best_attempt')]_vars
    /\ [](pc = "done" /\ best_attempt # None =>
            \A i \in 1..Len(evaluated) : ~ Beats(evaluated[i].scored, best_attempt))

\* a finished run in which an attempt scored lower than the attempt scored
\* just before it, and the best returned is the improved one
C19_Witness ==
    /\ pc = "done"
    /\ best_origin = "local_search"
    /\ \E i \in 2..Len(evaluated) :
          Beats(evaluated[i - 1].scored, evaluated[i].scored)

\* entry i of the history is a constructed attempt with nothing unassigned
\* and a score of at least 0.95
PerfectAt(i) ==
    /\ evaluated[i].origin = "constructed"
    /\ evaluated[i].scored.unassigned_blocks = {}
    /\ ~ FLess(evaluated[i].scored.score, Double(19, -256, 20))

\* the attempts of the loop that were constructed and scored
Constructed == {i \in 1..Len(evaluated) : evaluated[i].origin = "constructed"}

\* C20: the attempt loop stops at the first attempt with nothing unassigned
\* and a score >= 0.95 (that attempt is the last thing scored: no later
\* attempt is constructed and no local search is run on it); a run with no
\* such attempt constructs exactly max_attempts attempts
C20_StopsAtFirstPerfect ==
    /\ \A i \in 1..Len(evaluated) :
          (pc # "idle" /\ PerfectAt(i)) =>
             /\ i = Len(evaluated)
             /\ attempt = evaluated[i].attempt
             /\ pc \in {"return", "done"}
    /\ (pc = "done" /\ ~ \E i \in 1..Len(evaluated) : PerfectAt(i)) =>
          /\ attempt = max_attempts
          /\ {evaluated[i].attempt : i \in Constructed} = 1..max_attempts
          /\ Cardinality(Constructed) = max_attempts

\* a run allowed two attempts that returned after its first, perfect one
C20_Witness ==
    /\ pc = "done"
    /\ max_attempts >= 2
    /\ attempt = 1
    /\ Len(evaluated) = 1
    /\ PerfectAt(1)

\* entry i of the history is a constructed attempt with nothing unassigned
\* and a score s with 0.7 <= s < 0.95
DecentAt(i) ==
    /\ evaluated[i].origin = "constructed"
    /\ evaluated[i].scored.unassigned_blocks = {}
    /\ ~ FLess(evaluated[i].scored.score, Double(14, -256, 20))
    /\ FLess(evaluated[i].scored.score, Double(19, -256, 20))

\* local search is running, or has returned and its map is about to be scored
Searching == pc \in {"local_search", "improved"}

\* C21: local search runs only on the attempt just scored, which has no
\* unassigned block and a score s with 0.7 <= s < 0.95 (so every improved
\* attempt in the history follows such a constructed attempt), and the
\* improved attempt replaces best only if it beats the best held so far
C21_LocalSearchOnDecentOnly ==
    /\ [](Searching => (evaluated # <<>> /\ DecentAt(Len(evaluated))
                        /\ unassigned = {}
                        /\ ls.cur # <<>>
                        /\ Keys(ls.cur) = Keys(evaluated[Len(evaluated)].scored.assignments)))
    /\ [](\A i \in 1..Len(evaluated) :
            evaluated[i].origin = "improved" =>
                (i > 1 /\ DecentAt(i - 1)
                 /\ evaluated[i - 1].attempt = evaluated[i].attempt))
    /\ [][(Searching /\ pc' = "loop" /\ best_attempt' # best_attempt) =>
            /\ best_attempt # None
            /\ best_attempt' = evaluated'[Len(evaluated')].scored
            /\ Beats(best_attempt', best_attempt)]_vars

\* a finished run whose last scored attempt is an improved one that
\* replaced the best
C21_Witness ==
    /\ pc = "done"
    /\ best_origin = "local_search"
    /\ evaluated[Len(evaluated)].origin = "improved"
    /\ best_attempt = evaluated[Len(evaluated)].scored

\* C22: every swap local search commits gives a map that scores strictly
\* higher than the map it replaces, both scored against the same index, and
\* the map local search returns does not score lower than its input map,
\* both scored against the index held when it returns
C22_CommitsOnlyOnGain ==
    Searching =>
        /\ ls.gained
        /\ pc = "improved" =>
              ~ FLess(_evaluate_schedule(state, ls.cur),
                      _evaluate_schedule(state, current_assignments))

\* the map A with the rooms of its entries i and j exchanged
Exchanged(A, i, j) ==
    [k \in 1..Len(A) |->
        IF k = i THEN Assignment(A[i].block, A[i].time_slot, A[j].room)
        ELSE IF k = j THEN Assignment(A[j].block, A[j].time_slot, A[i].room)
        ELSE A[k]]

\* the pairs of entries of A that require the same room type, fit into each
\* other's room, and whose exchange of rooms strictly raises the score of A
Exchangeable(A) ==
    {p \in (1..Len(A)) \X (1..Len(A)) :
        /\ p[1] < p[2]
        /\ A[p[1]].block.required_room_type = A[p[2]].block.required_room_type
        /\ A[p[1]].room.capacity >= A[p[2]].block.student_count
        /\ A[p[2]].room.capacity >= A[p[1]].block.student_count
        /\ FLess(_evaluate_schedule(UpdateState(A), A),
                 _evaluate_schedule(UpdateState(A), Exchanged(A, p[1], p[2])))}

\* C23: when the map given to local search has such a pair, the map it
\* returns differs from the input, scores strictly higher than the input was
\* scored, and also scores strictly higher than the input when both are
\* scored against the index held at return
C23_SwapPerformed ==
    (pc = "improved" /\ Exchangeable(current_assignments) # {}) =>
        /\ ls.cur # current_assignments
        /\ FLess(evaluated[Len(evaluated)].scored.score,
                 _evaluate_schedule(state, ls.cur))
        /\ FLess(_evaluate_schedule(state, current_assignments),
                 _evaluate_schedule(state, ls.cur))

\* local search has returned from a map with such a pair, and a block sits
\* in another room than the one it was given to
C23_Witness ==
    /\ pc = "improved"
    /\ Exchangeable(current_assignments) # {}
    /\ \E i \in 1..Len(ls.cur) : \E j \in 1..Len(current_assignments) :
          /\ ls.cur[i].block.id = current_assignments[j].block.id
          /\ ls.cur[i].room.id # current_assignments[j].room.id

\* the (room, slot) pairs enumerated for a block, as positions in the list
\* of suitable rooms and in the room's list of possible slots
Enumerated(b) ==
    LET rooms == GetSuitableRooms(b, halls, labs)
    IN UNION { {<<i, k>> : k \in 1..Len(_get_possible_slots(b, rooms[i]))} :
                  i \in 1..Len(rooms) }

PairRoom(b, p) == GetSuitableRooms(b, halls, labs)[p[1]]
PairSlot(b, p) == _get_possible_slots(b, PairRoom(b, p))[p[2]]

\* room-major enumeration order
Before(p, q) == p[1] < q[1] \/ (p[1] = q[1] /\ p[2] < q[2])

\* the enumerated pairs that pass the hard constraints against the map A
Passing(b, A) ==
    {p \in Enumerated(b) :
        check_all_constraints(b, PairSlot(b, p), PairRoom(b, p), A).valid}

\* the soft score of a pair on the index built from the map A
SoftOf(b, p, A) ==
    evaluate_soft_constraints(UpdateState(A), b, PairSlot(b, p), PairRoom(b, p))

\* p passes, no passing pair scores higher, and every passing pair before p
\* scores lower
FirstBest(b, p, A) ==
    /\ p \in Passing(b, A)
    /\ \A q \in Passing(b, A) :
          /\ ~ FLess(SoftOf(b, p, A), SoftOf(b, q, A))
          /\ Before(q, p) => FLess(SoftOf(b, q, A), SoftOf(b, p, A))

\* C24: a construction step places its block at the first pair of greatest
\* soft score among the enumerated pairs that pass the hard constraints
\* against the current map, and leaves the block unplaced exactly when no
\* enumerated pair passes
C24_FirstBestPassing ==
    [][(pc = "construct" /\ next_block <= Len(sorted_blocks)
          /\ next_block' = next_block + 1) =>
         LET b == sorted_blocks[next_block]
             A == current_assignments
         IN IF Passing(b, A) = {}
            THEN current_assignments' = A /\ b.id \in unassigned'
            ELSE \E p \in Passing(b, A) :
                    /\ FirstBest(b, p, A)
                    /\ current_assignments' =
                          Append(A, Assignment(b, PairSlot(b, p), PairRoom(b, p)))
                    /\ b.id \notin unassigned']_vars

\* the block just placed went to a pair that is not the first passing one:
\* an earlier pair passed as well, with a lower soft score
C24_Witness ==
    /\ pc = "construct"
    /\ next_block > 1
    /\ current_assignments # <<>>
    /\ LET b == sorted_blocks[next_block - 1]
           last == current_assignments[Len(current_assignments)]
           A == SubSeq(current_assignments, 1, Len(current_assignments) - 1)
       IN /\ last.block = b
          /\ \E p \in Passing(b, A) : \E q \in Passing(b, A) :
                /\ last = Assignment(b, PairSlot(b, p), PairRoom(b, p))
                /\ Before(q, p)
                /\ FLess(SoftOf(b, q, A), SoftOf(b, p, A))

\* the positions of sorted_blocks already handed to _schedule_single_block
\* in the attempt under construction
Attempted == 1..(next_block - 1)

\* every built block occurs exactly once in the order of the attempt
EachBlockOnce ==
    /\ Len(sorted_blocks) = Len(blocks)
    /\ \A i \in 1..Len(blocks) :
          Cardinality({j \in 1..Len(sorted_blocks) : sorted_blocks[j] = blocks[i]}) = 1

\* C25: within an attempt every built block is handed to
\* _schedule_single_block exactly once, in the order of sorted_blocks and
\* whatever happened to the blocks before it; a block that could not be
\* placed stays in unassigned; the attempt is scored only after the last
\* block; and the map a block is checked against holds every block placed
\* earlier in the attempt
C25_EveryBlockAttemptedOnce ==
    /\ [](pc = "construct" =>
            /\ EachBlockOnce
            /\ next_block \in 1..(Len(sorted_blocks) + 1)
            /\ \A j \in 1..Len(sorted_blocks) :
                  /\ j \notin Attempted =>
                        /\ sorted_blocks[j].id \in unassigned
                        /\ sorted_blocks[j].id \notin Keys(current_assignments)
                  /\ j \in Attempted =>
                        (sorted_blocks[j].id \in unassigned)
                            # (sorted_blocks[j].id \in Keys(current_assignments)))
    /\ [][(pc = "construct" /\ next_block' # next_block) =>
            /\ next_block <= Len(sorted_blocks)
            /\ next_block' = next_block + 1
            /\ pc' = "construct"
            /\ SubSeq(current_assignments', 1, Len(current_assignments))
                  = current_assignments
            /\ unassigned' \subseteq unassigned
            /\ unassigned \ unassigned' \subseteq {sorted_blocks[next_block].id}
            /\ Candidates(sorted_blocks[next_block], halls, labs) # <<>> =>
                  state'.current_assignments = current_assignments]_vars
    /\ [][(pc = "construct" /\ pc' # "construct") =>
            next_block = Len(sorted_blocks) + 1]_vars

\* a block that could not be placed, followed in the same attempt by a block
\* that was placed
C25_Witness ==
    /\ pc = "construct"
    /\ \E i \in Attempted : \E j \in Attempted :
          /\ i < j
          /\ sorted_blocks[i].id \in unassigned
          /\ sorted_blocks[j].id \in Keys(current_assignments)

\* the priority key of a block: single-group flag, minus the number of
\* suitable rooms, minus the number of available slots over those rooms,
\* priority score (times 100)
PriorityKey(b) ==
    LET rooms == GetSuitableRooms(b, halls, labs)
    IN << IF b.is_single_group_course THEN 1 ELSE 0,
          0 - Len(rooms),
          0 - SumSeq([i \in 1..Len(rooms) |-> Len(GetAvailableSlots(b, rooms[i], <<>>))]),
          (IF b.preferred_rooms # <<>> THEN 1000 ELSE 0)
             + (IF b.is_single_group_course THEN 2000 ELSE 0)
             + (IF b.staff_member.kind = "lecturer" THEN 1500 ELSE 0)
             + (IF b.required_room_type = "lab" THEN 800 ELSE 0)
             + b.student_count >>

\* the position of a block in the builder's output
BuilderPosition(b) == CHOOSE i \in 1..Len(blocks) : blocks[i] = b

\* C26: the blocks of an attempt are processed in non-increasing order of
\* the priority key, compared lexicographically: every single-group block
\* comes before every other block, and blocks of equal key keep the order
\* the builder gave them
C26_PriorityOrder ==
    pc = "construct" =>
        /\ EachBlockOnce
        /\ \A i \in 1..Len(sorted_blocks) : \A j \in 1..Len(sorted_blocks) :
              i < j =>
                 LET x == sorted_blocks[i]
                     y == sorted_blocks[j]
                 IN /\ ~ TupleLess(PriorityKey(x), PriorityKey(y))
                    /\ y.is_single_group_course => x.is_single_group_course
                    /\ PriorityKey(x) = PriorityKey(y)
                          => BuilderPosition(x) < BuilderPosition(y)

\* an attempt whose order differs from the builder's, with a single-group
\* block moved to the front and two blocks of equal key
C26_Witness ==
    /\ pc = "construct"
    /\ sorted_blocks # blocks
    /\ sorted_blocks[1].is_single_group_course
    /\ ~ blocks[1].is_single_group_course
    /\ \E i \in 1..Len(sorted_blocks) : \E j \in 1..Len(sorted_blocks) :
          i < j /\ PriorityKey(sorted_blocks[i]) = PriorityKey(sorted_blocks[j])

\* C27: during construction the candidates enumerated for the block about
\* to be placed leave out every (day, start_time) that the candidate room or
\* the block's staff member already holds in the map of the attempt
C27_CandidatesExcludeTaken ==
    (pc = "construct" /\ next_block <= Len(sorted_blocks)) =>
        LET b == sorted_blocks[next_block]
            cands == Candidates(b, halls, labs)
        IN \A i \in 1..Len(cands) :
              \A k \in 1..Len(current_assignments) :
                 (\/ current_assignments[k].room.id = cands[i].room.id
                  \/ current_assignments[k].block.staff_member.id = b.staff_member.id)
                    => SlotKey(current_assignments[k].time_slot)
                          # SlotKey(cands[i].time_slot)

\* ------------------------------------------------------ builder, called directly
Converted == call.op = "_convert_course_assignments_to_blocks" /\ answer # None

\* the blocks a course assignment asks for
Emitted(c) == c.lecture_groups + (IF c.lab_groups > 0 THEN c.lab_groups ELSE 0)

\* the blocks asked for by the course assignments before the i-th
Offset(cas, i) == SumSeq([j \in 1..(i - 1) |-> Emitted(cas[j])])

\* the member of a staff list whose pair covers group n
Holder(pairs, n) ==
    LET upto(q) == SumSeq([j \in 1..q |-> pairs[j].num_of_groups])
    IN pairs[CHOOSE q \in 1..Len(pairs) : upto(q - 1) < n /\ n <= upto(q)].staff

\* C28: the blocks are the concatenation, in input order, of one segment per
\* course assignment; a segment holds lecture_groups lecture blocks numbered
\* 1..lecture_groups, the k of each (lecturer, k) pair consecutive and in
\* list order, and then, when lab_groups > 0, lab_groups lab blocks numbered
\* 1..lab_groups in the order of the teaching-assistant list
C28_BlocksPerCourseAssignment ==
    Converted =>
        LET cas == call.course_assignments
            B == answer.blocks
        IN /\ Len(B) = Offset(cas, Len(cas) + 1)
           /\ \A i \in 1..Len(cas) :
                LET c == cas[i]
                    o == Offset(cas, i)
                IN /\ \A n \in 1..c.lecture_groups :
                        /\ B[o + n].block_type = "lecture"
                        /\ B[o + n].course_code = c.course_code
                        /\ B[o + n].group_number = n
                        /\ B[o + n].staff_member = Holder(c.lecturers, n)
                   /\ c.lab_groups > 0 =>
                        \A n \in 1..c.lab_groups :
                            LET b == B[o + c.lecture_groups + n]
                            IN /\ b.block_type = "lab"
                               /\ b.course_code = c.course_code
                               /\ b.group_number = n
                               /\ b.staff_member = Holder(c.teaching_assistants, n)

\* two course assignments were converted, the first with two lecturers of
\* one and two groups and with three lab groups shared by two assistants
C28_Witness ==
    /\ Converted
    /\ Len(call.course_assignments) = 2
    /\ LET c == call.course_assignments[1]
       IN /\ Len(c.lecturers) = 2 /\ c.lecturers[2].num_of_groups = 2
          /\ c.lab_groups = 3 /\ Len(c.teaching_assistants) = 2
    /\ call.course_assignments[2].course_code # call.course_assignments[1].course_code
    /\ Len(answer.blocks) >= 7

\* C29: the ids of the blocks the builder returns for one call are pairwise
\* distinct (so a map or a set keyed by id holds one entry per block, and
\* every block's id can be taken out of the set of ids once)
C29_BlockIdsDistinct ==
    Converted =>
        \A i, j \in 1..Len(answer.blocks) :
            i # j => answer.blocks[i].id # answer.blocks[j].id

\* the course assignment whose segment holds the block at position pos
SourceOf(cas, pos) ==
    cas[CHOOSE i \in 1..Len(cas) : Offset(cas, i) < pos /\ pos <= Offset(cas, i + 1)]

\* q is the whole part of students / groups
WholeShare(q, students, groups) ==
    q * groups <= students /\ students < (q + 1) * groups

\* C30: every block the builder emits has is_single_group_course true
\* exactly when total_groups = 1; a lecture block carries a lecturer, asks
\* for a hall, and has the lecture_groups of its course assignment as
\* total_groups and expected_students div lecture_groups as student_count; a
\* lab block carries a teaching assistant, asks for a lab exactly when
\* practical_in_lab (a hall otherwise), and has lab_groups as total_groups
\* and expected_students div lab_groups as student_count
C30_BlockFields ==
    Converted =>
        \A pos \in 1..Len(answer.blocks) :
            LET b == answer.blocks[pos]
                c == SourceOf(call.course_assignments, pos)
            IN /\ b.is_single_group_course <=> b.total_groups = 1
               /\ b.block_type \in {"lecture", "lab"}
               /\ b.block_type = "lecture" =>
                    /\ b.staff_member.kind = "lecturer"
                    /\ b.required_room_type = "hall"
                    /\ b.total_groups = c.lecture_groups
                    /\ WholeShare(b.student_count, call.expected_students, c.lecture_groups)
               /\ b.block_type = "lab" =>
                    /\ b.staff_member.kind = "ta"
                    /\ b.required_room_type = (IF c.practical_in_lab THEN "lab" ELSE "hall")
                    /\ b.practical_in_lab = c.practical_in_lab
                    /\ b.total_groups = c.lab_groups
                    /\ WholeShare(b.student_count, call.expected_students, c.lab_groups)

\* 100 students were shared out over three groups, leaving a remainder, for
\* a lecture block, for a lab block held in a hall and for one held in a lab;
\* a single-group block was emitted as well
C30_Witness ==
    /\ Converted
    /\ call.expected_students = 100
    /\ \E b \in Range(answer.blocks) :
            b.block_type = "lecture" /\ b.total_groups = 3 /\ b.student_count = 33
    /\ \E b \in Range(answer.blocks) :
            /\ b.block_type = "lab" /\ b.required_room_type = "hall"
            /\ b.total_groups = 3 /\ b.student_count = 33
    /\ \E b \in Range(answer.blocks) :
            b.block_type = "lab" /\ b.required_room_type = "lab" /\ b.is_single_group_course

\* ------------------------------------------- constraint manager, called directly
UpdateAnswered == call.op = "update_state" /\ answer # None

\* a two-level map of the index holds key k under x
HasKey(index, x, k) == x \in DOMAIN index /\ k \in DOMAIN index[x]

\* the first-level and second-level keys an index holds
Outer(index) == DOMAIN index
Inner(index) == UNION { DOMAIN index[x] : x \in DOMAIN index }

\* C31: after update_state(A) the index holds what A says and nothing of
\* what it held before: room_bookings[r] has key (d, t) exactly when an
\* assignment of A uses room r at (d, t), staff_bookings[s] has key (d, t)
\* exactly when an assignment of A has staff member s at (d, t),
\* course_slots[c][(d, t)] is the number of assignments of course c at
\* (d, t), and study_plan_slots[(list, d, t)] lists the ids of the blocks of
\* A at that key, each once
C31_IndexFromMapAlone ==
    UpdateAnswered =>
        LET A == call.assignments
            N == 1..Len(A)
            keys == { SlotKey(A[i].time_slot) : i \in N }
            planKey(i) == <<A[i].block.academic_list, A[i].time_slot.day,
                            A[i].time_slot.start_time>>
        IN /\ \A r \in Outer(state.room_bookings) \cup { A[i].room.id : i \in N },
                k \in Inner(state.room_bookings) \cup keys :
                  HasKey(state.room_bookings, r, k)
                    <=> \E i \in N : A[i].room.id = r /\ SlotKey(A[i].time_slot) = k
           /\ \A m \in Outer(state.staff_bookings) \cup { A[i].block.staff_member.id : i \in N },
                k \in Inner(state.staff_bookings) \cup keys :
                  HasKey(state.staff_bookings, m, k)
                    <=> \E i \in N : /\ A[i].block.staff_member.id = m
                                     /\ SlotKey(A[i].time_slot) = k
           /\ \A c \in Outer(state.course_slots) \cup { A[i].block.course_code : i \in N },
                k \in Inner(state.course_slots) \cup keys :
                  LET held == { i \in N : /\ A[i].block.course_code = c
                                          /\ SlotKey(A[i].time_slot) = k }
                  IN /\ HasKey(state.course_slots, c, k) <=> held # {}
                     /\ held # {} => state.course_slots[c][k] = Cardinality(held)
           /\ \A p \in DOMAIN state.study_plan_slots \cup { planKey(i) : i \in N } :
                  LET held == { i \in N : planKey(i) = p }
                  IN /\ p \in DOMAIN state.study_plan_slots <=> held # {}
                     /\ held # {} =>
                          /\ Range(state.study_plan_slots[p]) = { A[i].block.id : i \in held }
                          /\ Len(state.study_plan_slots[p]) = Cardinality(held)

\* update_state was called with two assignments of one course at one slot,
\* on a manager whose index held another map, in another room at another slot
C31_Witness ==
    /\ UpdateAnswered
    /\ call.served = 1 /\ 1 \in Outer(RebuildIndex(call.earlier[1]).room_bookings)
    /\ Len(call.assignments) = 2
    /\ call.assignments[1].block.course_code = call.assignments[2].block.course_code
    /\ SlotKey(call.assignments[1].time_slot) = SlotKey(call.assignments[2].time_slot)
    /\ call.assignments[1].room.id = 2 /\ call.assignments[2].room.id = 2
    /\ call.assignments[1].time_slot.start_time = 9
    /\ state.course_slots[call.assignments[1].block.course_code][<<1, 9>>] = 2
    /\ 1 \notin DOMAIN state.room_bookings

\* no block of the candidate's academic list held by the map at the
\* candidate slot rules the candidate out, nor does the candidate rule it out
SingleGroupFree ==
    LET A == call.assignments
        held == { i \in 1..Len(A) :
                    /\ A[i].block.academic_list = call.block.academic_list
                    /\ SlotKey(A[i].time_slot) = SlotKey(call.slot) }
    IN \/ held = {}
       \/ /\ ~ call.block.is_single_group_course
          /\ \A i \in held :
                /\ ~ A[i].block.is_single_group_course
                /\ A[i].block.course_code = call.block.course_code =>
                      call.block.total_groups # 1 /\ A[i].block.total_groups # 1

\* the five hard constraints read off the four arguments of the call
HoldsOnArguments == << ~ RoomTaken, ~ StaffTaken, RoomOpen, SingleGroupFree, RoomFits >>

\* C32: what check_all_constraints(block, slot, room, A) returns is fixed by
\* its four arguments, whatever calls the manager served before: the verdict
\* and the reason are those of the first hard constraint that fails on A,
\* and the map the manager holds afterwards is A as it was given, without
\* the candidate
C32_VerdictFromArgumentsAlone ==
    CheckAllAnswered =>
        LET failing == {i \in 1..5 : ~ HoldsOnArguments[i]}
        IN /\ answer.valid <=> failing = {}
           /\ answer.reason = IF failing = {} THEN "None"
                              ELSE Descriptions[CHOOSE i \in failing :
                                                  \A j \in failing : i <= j]
           /\ state.current_assignments = call.assignments

\* the manager had served a call whose map books the candidate room at the
\* candidate slot, and the call looked at, on a map that does not, is accepted
C32_Witness ==
    /\ CheckAllAnswered
    /\ "earlier" \in DOMAIN call /\ call.served = 1
    /\ \E i \in 1..Len(call.earlier[1]) :
          /\ call.earlier[1][i].room.id = call.room.id
          /\ SlotKey(call.earlier[1][i].time_slot) = SlotKey(call.slot)
    /\ ~ RoomTaken
    /\ answer.valid

\* ------------------------------------------------------ the index that is read
\* the five maps of the index are those update_state builds from the map m
IndexedFrom(m) ==
    LET fresh == RebuildIndex(m)
    IN /\ state.room_bookings = fresh.room_bookings
       /\ state.staff_bookings = fresh.staff_bookings
       /\ state.course_slots = fresh.course_slots
       /\ state.level_slots = fresh.level_slots
       /\ state.study_plan_slots = fresh.study_plan_slots

\* C33: when the engine scores a map it has modified, the index the soft
\* constraints read was rebuilt from that map: the map of an attempt when
\* the construction loop is over, and the map _local_search returned when
\* it is scored again
C33_ScoredAgainstOwnIndex ==
    /\ (pc = "construct" /\ next_block > Len(sorted_blocks)) =>
            IndexedFrom(current_assignments)
    /\ pc = "improved" => IndexedFrom(ls.cur)

\* ------------------------------------------------- soft constraints, called directly
GapsAnswered == call.op = "evaluate_gaps" /\ answer # None

\* the start hours the map holds for the candidate's academic list and level
\* on the candidate's day
HeldHours ==
    { call.assignments[i].time_slot.start_time :
        i \in { j \in 1..Len(call.assignments) :
                  /\ call.assignments[j].block.academic_list = call.block.academic_list
                  /\ call.assignments[j].block.academic_level = call.block.academic_level
                  /\ call.assignments[j].time_slot.day = call.slot.day } }

\* the widest gap: between two held hours with no held hour in between, and
\* from the candidate to the earliest and to the latest held hour
WidestGap ==
    LET neighbours == { p \in HeldHours \X HeldHours :
                          /\ p[1] < p[2]
                          /\ ~ \E w \in HeldHours : p[1] < w /\ w < p[2] }
        between == { p[2] - p[1] : p \in neighbours }
        first == CHOOSE x \in HeldHours : \A y \in HeldHours : x <= y
        last == CHOOSE x \in HeldHours : \A y \in HeldHours : y <= x
    IN CHOOSE g \in between \cup {Abs(call.slot.start_time - first),
                                  Abs(call.slot.start_time - last)} :
          \A h \in between \cup {Abs(call.slot.start_time - first),
                                 Abs(call.slot.start_time - last)} : h <= g

\* C34: evaluate_gaps returns 1.0 when the index holds no slot of the
\* block's academic list and level on the candidate's day; otherwise 1.0
\* when the widest gap is at most 2 hours, 0.5 when it is at most 4, and 0.0
\* beyond (scores are in tenths)
C34_GapBuckets ==
    GapsAnswered =>
        answer.score = IF HeldHours = {} THEN 10
                       ELSE IF WidestGap <= 2 THEN 10
                       ELSE IF WidestGap <= 4 THEN 5
                       ELSE 0

\* the held hours 9 and 13 are four hours apart and the candidate at 11 lies
\* between them: the score is 0.5
C34_Witness ==
    /\ GapsAnswered
    /\ HeldHours = {9, 13}
    /\ call.slot.start_time = 11
    /\ call.assignments[1].time_slot.start_time = 13
    /\ answer.score = 5

CapacityAnswered == call.op = "evaluate_room_capacity" /\ answer # None

\* the bands of u = c / cap, each with its score in tenths; the comparisons
\* of the quotient are written on 10 * c and the multiples of cap
CapacityBands(c, cap) ==
    { b \in { <<"ideal", 10>>, <<"under", 7>>, <<"nearly full", 7>>,
              <<"far under", 3>>, <<"over", 0>> } :
        CASE b[1] = "ideal" -> 5 * cap <= 10 * c /\ 10 * c <= 9 * cap
          [] b[1] = "under" -> 3 * cap <= 10 * c /\ 10 * c < 5 * cap
          [] b[1] = "nearly full" -> 9 * cap < 10 * c /\ c <= cap
          [] b[1] = "far under" -> 10 * c < 3 * cap
          [] b[1] = "over" -> c > cap }

\* C35: evaluate_room_capacity answers for every student count and positive
\* capacity, exactly one band applies to u = student_count / capacity, and
\* the answer is that band's score: 1.0 for 0.5 <= u <= 0.9, 0.7 for
\* 0.3 <= u < 0.5 and for 0.9 < u <= 1.0, 0.3 for u < 0.3, 0.0 for u > 1.0
C35_OneCapacityBand ==
    CapacityAnswered =>
        LET bands == CapacityBands(call.block.student_count, call.room.capacity)
        IN /\ Cardinality(bands) = 1
           /\ \A b \in bands : answer.score = b[2]

\* ten students in a room of ten seats (u = 1.0) have been scored 0.7
C35_Witness ==
    /\ CapacityAnswered
    /\ call.room.capacity = 10
    /\ call.block.student_count = 10
    /\ answer.score = 7

\* ------------------------------------------------------ local search
\* the step is one pass of the loop of _local_search
IsPass == pc = "local_search" /\ ls'.iterations = ls.iterations + 1

\* C36: local_search returns; it makes at most max_iterations passes; a pass
\* is the last one exactly when it committed no swap (a commit raises the
\* score on record), so the first pass without a commit ends the search
C36_LocalSearchTerminates ==
    /\ [](ls.iterations <= MaxIterations)
    /\ [][IsPass => (pc' = "improved" <=> ~ FLess(ls.score, ls'.score))]_vars
    /\ [][IsPass => pc' \in {"improved", "local_search"}]_vars
    /\ (pc = "local_search") ~> (pc = "loop")

\* local search has stopped after two passes: the first committed a swap,
\* the second did not
C36_Witness ==
    /\ pc = "improved"
    /\ ls.iterations = 2
    /\ ls.cur # current_assignments

\* ------------------------------------------------------ sessions as intervals
\* the sessions [start_time, end_time) of two slots share an hour
Overlap(s, t) ==
    /\ s.day = t.day
    /\ s.start_time < t.end_time
    /\ t.start_time < s.end_time

\* C37 as stated: in a returned map no two assignments in one room, or of
\* one staff member, have overlapping sessions [start_time, end_time)
C37_NoOverlappingSessions ==
    \A p \in Distinct(ReturnedMap) :
        LET a == ReturnedMap[p[1]]
            b == ReturnedMap[p[2]]
        IN (a.room.id = b.room.id \/ a.block.staff_member.id = b.block.staff_member.id)
              => ~ Overlap(a.time_slot, b.time_slot)

\* ------------------------------------------------------ restarts
\* the attempts of this call as construction left them, in order
Constructions == SelectSeq(evaluated, LAMBDA e : e.origin = "constructed")

\* C38: every attempt's construction yields the map, the unassigned set and
\* the score of the first attempt's, and once the first attempt is over best
\* is replaced, if at all, by a result of local search and never by a
\* constructed attempt
C38_RestartsRepeat ==
    /\ [](\A i \in 1..Len(Constructions) : Constructions[i].scored = Constructions[1].scored)
    /\ [][(attempt > 1 /\ pc # "idle" /\ best_attempt' # best_attempt)
            => (pc \in {"local_search", "improved"} /\ best_origin' = "local_search")]_vars
    /\ [][(attempt > 1 /\ pc = "construct") => best_attempt' = best_attempt]_vars

\* the second attempt has been constructed and scored after a local search
\* that replaced best and left its own index behind
C38_Witness ==
    /\ Len(Constructions) = 2
    /\ Constructions[2].attempt = 2
    /\ Constructions[2].scored.assignments # <<>>
    /\ best_origin = "local_search"
    /\ best_attempt # Constructions[1].scored

\* ------------------------------------------------------ what local search keeps
\* how many assignments of the map A have the value v under the reading f
Count(A, f(_), v) == Cardinality({i \in 1..Len(A) : f(A[i]) = v})

RoomOf(a) == a.room
SlotOf(a) == a.time_slot

\* the maps A and B give every room and every time slot to as many blocks
SameRoomsAndSlots(A, B) ==
    /\ \A i \in 1..Len(A) : /\ Count(A, RoomOf, A[i].room) = Count(B, RoomOf, A[i].room)
                            /\ Count(A, SlotOf, A[i].time_slot) = Count(B, SlotOf, A[i].time_slot)
    /\ \A i \in 1..Len(B) : /\ Count(A, RoomOf, B[i].room) = Count(B, RoomOf, B[i].room)
                            /\ Count(A, SlotOf, B[i].time_slot) = Count(B, SlotOf, B[i].time_slot)

\* C39: the map local search returns has the keys of the map it was given,
\* each key with the same block, and the same rooms and the same time slots
\* counted with their multiplicities
C39_LocalSearchPermutes ==
    ReturnDue =>
        /\ Keys(ls.cur) = Keys(current_assignments)
        /\ Len(ls.cur) = Len(current_assignments)
        /\ \A i \in 1..Len(ls.cur) :
              ls.cur[i].block =
                  current_assignments[IndexOf(current_assignments, ls.cur[i].block.id)].block
        /\ SameRoomsAndSlots(ls.cur, current_assignments)

\* local search returns a map in which one block has changed its room and
\* another its time slot
C39_Witness ==
    /\ ReturnDue
    /\ \E i \in 1..Len(ls.cur) :
          ls.cur[i].room # current_assignments[IndexOf(current_assignments,
                                                       ls.cur[i].block.id)].room
    /\ \E i \in 1..Len(ls.cur) :
          ls.cur[i].time_slot # current_assignments[IndexOf(current_assignments,
                                                            ls.cur[i].block.id)].time_slot

\* ------------------------------------------------------ maps are not shared
\* the attempt scored last
LastScored == evaluated[Len(evaluated)].scored

\* C40: while local search runs and when it returns, the map it was given
\* stays as it was; best changes only by being replaced with the attempt
\* just scored, never in place; and the map returned is the map of an
\* attempt as it was scored, the one held as best
C40_MapsNotModified ==
    /\ [][(pc \in {"local_search", "improved"})
            => (current_assignments' = current_assignments)]_vars
    /\ [][(best_attempt # None /\ best_attempt' # None /\ best_attempt' # best_attempt)
            => (Len(evaluated') = Len(evaluated) + 1 /\ best_attempt' = LastScored')]_vars
    /\ [](pc = "done" /\ IsMap(result)
            => /\ result.assignments = best_attempt.assignments
               /\ \E i \in 1..Len(evaluated) : evaluated[i].scored = best_attempt)

\* a local search swapped its copy into another map, which became best and
\* is returned, while the map it was given is still as construction scored it
C40_Witness ==
    /\ pc = "done"
    /\ IsMap(result)
    /\ best_origin = "local_search"
    /\ result.assignments = LastScored.assignments
    /\ current_assignments # result.assignments
    /\ \E i \in 1..Len(evaluated) :
          /\ evaluated[i].origin = "constructed"
          /\ evaluated[i].scored.assignments = current_assignments
====
